---- MODULE Spec2Model ----
(***************************************************************************)
(* Tile cache and seeding job engine of the charts plugin                  *)
(* (src/src/chartDownloader.ts lines 1-482, chartDownloaderMBTilesHelpers, *)
(* the job-control route of src/src/index.ts).                             *)
(*                                                                         *)
(* The program runs on one JavaScript event loop.  One action of the model *)
(* is one macrotask: the code that runs from the completion of one I/O     *)
(* operation (store read, remote fetch, disk probe, store write, timer) or *)
(* from one incoming HTTP request up to the next await on I/O.  Awaits on  *)
(* already-settled promises are microtasks and stay inside the action.     *)
(* Such a run-to-completion segment is written as a function from a state  *)
(* record S to a state record; an action applies one segment to the        *)
(* current state.                                                          *)
(***************************************************************************)
EXTENDS Integers, Sequences, FiniteSets, TLC

VARIABLES
    mapRows,          \* MBTiles relation map: tile -> tile_id (content id) or Null
    images,           \* MBTiles relation images: set of tile_ids present
    lastWriter,       \* history: who last changed the map row of each tile:
                      \* <<"get", g>>, <<"seed", r>>, <<"delete", d>> or nobody
    CachingDisabled,  \* ChartDownloader.CachingDisabled
    TilesCached,      \* ChartDownloader.TilesCached
    stats,            \* ChartDownloader.CacheStatistics of the one proxied provider
    gets,             \* tile GET requests (serveTileFromCacheOrRemote), one slot each
    nextJobId,        \* ChartDownloader.nextJobId
    ActiveJobs,       \* ChartSeedingManager.ActiveJobs (the registered ids)
    jobs,             \* the ChartDownloader objects by id
    runs,             \* invocations of seedCache (each has its own iterator and workers)
    dels,             \* invocations of deleteCache
    stopSum,          \* history: downloaded+cached+failed at the last cancelJob since the
                      \* job's last seedCache call (-1: none)
    sampled,          \* history: the tile cache has begun or ended a free-space
                      \* probe since a write last made TilesCached a multiple
                      \* of DiskCheckEvery (kept in the scenarios that watch it)
    probe,            \* history: the latest free-space probe that completed and
                      \* its outcome (kept in the scenarios that watch it)
    reply,            \* history: the latest POST to the job-control endpoint and
                      \* the response it got (kept in the scenarios that watch it)
    statistics,       \* the object a caller got from getStatistics and holds
    enumeration,      \* a call of getTilesForBBox: its arguments and what two
                      \* generators made from them yielded
    flip,             \* a row converted at the store boundary: its zoom, its y
                      \* and the results of the conversions
    limit             \* the bounds of the explored scenario (never changes)

vars == <<mapRows, images, lastWriter, CachingDisabled, TilesCached, stats, gets,
          nextJobId, ActiveJobs, jobs, runs, dels, stopSum, sampled, probe, reply,
          statistics,
          enumeration, flip, limit>>

-----------------------------------------------------------------------------
(* Bounds of the model.  Concurrency, DiskCheckEvery, ChunkSize,           *)
(* PurgeChunkSize, RefineBelow and CountUpperLimit stand for the program's *)
(* 32, 1000, 1000, 1000, 10000 and 11000, scaled down so that every case   *)
(* fits in a short tile sequence.                                          *)
Concurrency == 2
DiskCheckEvery == 2
ChunkSize == 2
PurgeChunkSize == 1
RefineBelow == 3
CountUpperLimit == 4
MaxEstimate == 4
NumTiles == 3
NumBytes == 2
MaxGets == 2
MaxJobs == 2
MaxSeedRuns == 2
MaxDeleteRuns == 1
MaxZoom == 2
MaxStoreZoom == 24
NumRowsNearEdge == 3

Null == 0
Tiles == 1..NumTiles
Bytes == 1..NumBytes

\* The regions a job can be created for: the tile sequence its factory yields.
Regions == { <<1, 2, 3>>, <<2>>, <<1, 3>> }

\* enum State, JobType, TileSource and the status labels
Stopped == "stopped"
Running == "running"
TypeNone == "none"
TypeSeed == "seed"
TypeDelete == "delete"
SourceNone == "none"
FetchedFromCache == "fromCache"
FetchedFromRemote == "fromRemote"

NoJob == [exists |-> FALSE]
NoRun == [phase |-> "free"]
NoDel == [phase |-> "free"]
NoWorker == [pc |-> "new", tile |-> Null, buffer |-> Null, readFailed |-> FALSE]
DoneWorker == [pc |-> "done", tile |-> Null, buffer |-> Null, readFailed |-> FALSE]
\* What the remote did for a fetch: no remoteUrl is configured, fetch() or
\* the body read rejected (network error, abort after the timeout), or an
\* HTTP response with response.ok and a body.  Buffers are numbered by
\* content; the buffer of length 0 (an empty body) is EmptyBuffer.
EmptyBuffer == NumBytes
NoResponse == [kind |-> "none", ok |-> FALSE, body |-> Null]
Responses ==
    { [kind |-> k, ok |-> FALSE, body |-> Null] : k \in {"noUrl", "rejected"} }
    \cup [kind : {"http"}, ok : BOOLEAN, body : Bytes]

\* ChartDownloader.fetchTileFromRemote: the Buffer made of the body of a
\* response with response.ok, whatever its length; otherwise null.
fetchTileFromRemote(response) ==
    IF response.kind = "noUrl" THEN Null
    ELSE IF response.kind = "rejected" THEN Null
    ELSE IF ~response.ok THEN Null
    ELSE response.body

NoGet == [pc |-> "new", tile |-> Null, buffer |-> Null,
          ret |-> [buffer |-> Null, source |-> SourceNone], after |-> {},
          response |-> NoResponse]

\* The state record a segment works on.
St == [mapRows |-> mapRows, images |-> images, lastWriter |-> lastWriter,
       CachingDisabled |-> CachingDisabled, TilesCached |-> TilesCached,
       stats |-> stats, gets |-> gets, nextJobId |-> nextJobId,
       ActiveJobs |-> ActiveJobs, jobs |-> jobs, runs |-> runs, dels |-> dels,
       stopSum |-> stopSum, sampled |-> sampled, probe |-> probe, reply |-> reply]

Apply(S) ==
    /\ mapRows' = S.mapRows
    /\ images' = S.images
    /\ lastWriter' = S.lastWriter
    /\ CachingDisabled' = S.CachingDisabled
    /\ TilesCached' = S.TilesCached
    /\ stats' = S.stats
    /\ gets' = S.gets
    /\ nextJobId' = S.nextJobId
    /\ ActiveJobs' = S.ActiveJobs
    /\ jobs' = S.jobs
    /\ runs' = S.runs
    /\ dels' = S.dels
    /\ stopSum' = S.stopSum
    /\ sampled' = S.sampled
    /\ probe' = S.probe
    /\ reply' = S.reply
    /\ UNCHANGED <<statistics, enumeration, flip, limit>>

-----------------------------------------------------------------------------
(* The MBTiles store of the provider (provider._mbtilesHandle).            *)

\* mbtilesHandle.getTile: the tile's data, or Null ("Tile does not exist").
getTile(S, tile) ==
    IF S.mapRows[tile] # Null /\ S.mapRows[tile] \in S.images
    THEN S.mapRows[tile] ELSE Null

\* Faulty variant, to test the property: the write stores the image but no map row for the tile.
putTile_NoMapRow(S, tile, buffer, who) ==
    [S EXCEPT !.images = S.images \cup {buffer},
              !.lastWriter[tile] = who]

\* Faulty variant, to test the property: the write drops the map rows that
\* other writers wrote.
putTile_DropsOthers(S, tile, buffer, who) ==
    [S EXCEPT !.mapRows = [t \in Tiles |->
                              IF t = tile THEN buffer
                              ELSE IF S.lastWriter[t] = who THEN S.mapRows[t]
                              ELSE Null],
              !.images = S.images \cup {buffer},
              !.lastWriter[tile] = who]

\* mbtilesHandle.putTile: the image row (deduplicated by content) and the map row.
putTile(S, tile, buffer, who) ==
    [S EXCEPT !.mapRows[tile] = buffer,
              !.images = S.images \cup {buffer},
              !.lastWriter[tile] = who]

-----------------------------------------------------------------------------
(* ChartDownloader.getTileFromCacheOrRemote, cut at its awaits.  Each      *)
(* segment returns [S, pc, buffer, ret]: pc = "ret" when the call has      *)
(* returned ret, otherwise the await the call is suspended at.             *)

NoRet == [buffer |-> Null, source |-> SourceNone]
Suspended(S, pc, buffer) == [S |-> S, pc |-> pc, buffer |-> buffer, ret |-> NoRet]
\* buffer: the call's local variable buffer; retBuffer: the buffer it returns.
Returned(S, buffer, retBuffer, source) ==
    [S |-> S, pc |-> "ret", buffer |-> buffer,
     ret |-> [buffer |-> retBuffer, source |-> source]]

\* lines 323-334 and 342: count the request, then await the store read or the fetch.
CallStart(S, overwrite) ==
    LET S1 == [S EXCEPT !.stats.requests = @ + 1]
    IN  IF ~overwrite THEN Suspended(S1, "read", Null)
                      ELSE Suspended(S1, "fetch", Null)

\* Faulty variant, to test the property: a tile served from the store is
\* returned without counting the hit.
AfterRead_HitNotCounted(S, tile, ok) ==
    LET mbtilesBuffer == IF ok THEN getTile(S, tile) ELSE Null
    IN  IF mbtilesBuffer # Null
        THEN Returned(S, Null, mbtilesBuffer, FetchedFromCache)
        ELSE Suspended(S, "fetch", Null)

\* lines 335-342: the store read has completed; ok: without an error other
\* than "Tile does not exist" (getTileFromMbTiles, lines 373-400, returns
\* null after any other error).
AfterRead(S, tile, ok) ==
    LET mbtilesBuffer == IF ok THEN getTile(S, tile) ELSE Null
    IN  IF mbtilesBuffer # Null
        THEN Returned([S EXCEPT !.stats.hits = @ + 1], Null, mbtilesBuffer, FetchedFromCache)
        ELSE Suspended(S, "fetch", Null)

\* lines 403-428, up to the await of putTile.
cacheTileToMbTiles(S, buffer) ==
    IF buffer # Null /\ ~S.CachingDisabled
    THEN Suspended(S, "put", buffer)
    ELSE Returned(S, buffer, buffer, FetchedFromRemote)

\* Faulty variant, to test the property: the failure branch returns without counting the failure.
Decide_FailureNotCounted(S, buffer) ==
    IF ~S.CachingDisabled /\ buffer # Null
    THEN cacheTileToMbTiles([S EXCEPT !.stats.misses = @ + 1], buffer)
    ELSE Returned(S, buffer, Null, SourceNone)

\* lines 351-362: serve and cache, or count a failure.
Decide(S, buffer) ==
    IF ~S.CachingDisabled /\ buffer # Null
    THEN cacheTileToMbTiles([S EXCEPT !.stats.misses = @ + 1], buffer)
    ELSE Returned([S EXCEPT !.stats.failures = @ + 1], buffer, Null, SourceNone)

\* A free-space probe of the tile cache begins or ends (recorded once a
\* write has made TilesCached a multiple of DiskCheckEvery).
Sampled(S) == [S EXCEPT !.sampled = limit.samples /\ S.TilesCached >= DiskCheckEvery]

\* lines 342-347: the remote fetch has completed with buffer (Null: no bytes).
AfterFetch(S, buffer) ==
    IF ~S.CachingDisabled /\ S.TilesCached % DiskCheckEvery = 0
    THEN Suspended(Sampled(S), "probe", buffer)
    ELSE Decide(S, buffer)

\* What checkDiskSpace can do: report enough free space, report less than
\* MINIMUM_FREE_DISK_SPACE, or throw.
ProbeOutcomes == {"enough", "low", "error"}

\* Faulty variant, to test the property: a probe that throws counts as space.
hasDiskSpace_ErrorIsSpace(outcome) == outcome # "low"

\* lines 466-477.
hasDiskSpace(outcome) == outcome = "enough"

NoProbe == [n |-> 0]

\* A probe made at `at' (the tile cache or the check of seedCache call r)
\* has completed with outcome.
Probed(S, at, outcome) ==
    IF limit.probes
    THEN [S EXCEPT !.probe = [n |-> S.probe.n + 1, at |-> at, outcome |-> outcome]]
    ELSE S

\* lines 346-350: the free-space probe has completed.
AfterProbe(S, buffer, hasSpace) ==
    LET S1 == Sampled(S)
    IN  Decide(IF ~hasSpace THEN [S1 EXCEPT !.CachingDisabled = TRUE] ELSE S1, buffer)

\* line 423: TilesCached++ after a write that succeeded.
TileCached(S) ==
    [S EXCEPT !.TilesCached = @ + 1,
              !.sampled = IF (S.TilesCached + 1) % DiskCheckEvery = 0 THEN FALSE ELSE @]

\* lines 417-426 and 359: putTile has called back (ok: without error).
AfterPut(S, tile, buffer, ok, who) ==
    LET S1 == IF ok THEN TileCached(putTile(S, tile, buffer, who))
                    ELSE S
    IN  Returned(S1, buffer, buffer, FetchedFromRemote)

-----------------------------------------------------------------------------
(* GET /chart-tiles/:identifier/:z/:x/:y of a proxied provider             *)
(* (serveTileFromCacheOrRemote): one call of getTileFromCacheOrRemote with *)
(* overwrite = false.  A slot keeps the call's result once it has          *)
(* returned; after = the slots whose call had returned when it started.    *)

\* What the environment does in the explored scenario: the buffers the remote
\* returns (Null: no bytes), whether a store write can fail, whether a
\* free-space probe can report too little space.
RemoteReturns(buffer) == buffer \in limit.remote
StoreWrites(ok) == ok \/ limit.storeErrors
StoreReads(ok) == ok \/ limit.readErrors
DiskProbe(outcome) == outcome = "enough" \/ limit.lowDisk

GetResume(res, g) ==
    [res.S EXCEPT !.gets[g] =
        IF res.pc = "ret"
        THEN [@ EXCEPT !.pc = "done", !.buffer = res.buffer, !.ret = res.ret]
        ELSE [@ EXCEPT !.pc = res.pc, !.buffer = res.buffer]]

-----------------------------------------------------------------------------
(* chartDownloaderTileHelpers: the tiles of a bbox.  Longitudes and        *)
(* latitudes are counted in cells of the grid of zoom MaxZoom: longitude   *)
(* from -180 degrees (0) eastwards to 180 degrees (GridSize), latitude     *)
(* from the southern edge of the map (0) northwards.                       *)

RECURSIVE Pow2(_)
Pow2(n) == IF n = 0 THEN 1 ELSE 2 * Pow2(n - 1)

GridSize == Pow2(MaxZoom)
Coordinates == 0..(GridSize - 1)
Zooms == 0..MaxZoom

\* lines 231-248: floor of the position in units of the tiles of the zoom;
\* y counts from the north.
lonLatToTileXY(lon, lat, zoom) ==
    <<lon \div Pow2(MaxZoom - zoom), (GridSize - 1 - lat) \div Pow2(MaxZoom - zoom)>>

\* lines 43-47: the loops over x and, within, over y.
RectangleTiles(minX, maxX, minY, maxY, z) ==
    LET columns == maxX - minX + 1
        rows == maxY - minY + 1
    IN  IF columns <= 0 \/ rows <= 0 THEN <<>>
        ELSE [k \in 1..(columns * rows) |->
                 [x |-> minX + ((k - 1) \div rows), y |-> minY + ((k - 1) % rows),
                  z |-> z]]

\* lines 38-49: processBBox from zoom z on; the loop starts at z = 0.
RECURSIVE processBBoxFrom(_, _, _, _, _, _)
processBBoxFrom(lo1, la1, lo2, la2, z, maxZoom) ==
    IF z > maxZoom THEN <<>>
    ELSE LET low == lonLatToTileXY(lo1, la1, z)
             high == lonLatToTileXY(lo2, la2, z)
         IN  RectangleTiles(low[1], high[1], high[2], low[2], z)
                 \o processBBoxFrom(lo1, la1, lo2, la2, z + 1, maxZoom)

processBBox(lo1, la1, lo2, la2, maxZoom) == processBBoxFrom(lo1, la1, lo2, la2, 0, maxZoom)

\* lines 28-57: everything the generator yields, in order.
getTilesForBBox(bbox, minZoom, maxZoom) ==
    LET minLon == bbox[1]
        minLat == bbox[2]
        maxLon == bbox[3]
        maxLat == bbox[4]
        crossesAntiMeridian == minLon > maxLon
    IN  IF ~crossesAntiMeridian
        THEN processBBox(minLon, minLat, maxLon, maxLat, maxZoom)
        ELSE processBBox(minLon, minLat, GridSize, maxLat, maxZoom)
                 \o processBBox(0, minLat, maxLon, maxLat, maxZoom)

NoEnumeration == [called |-> FALSE]

\* The factory () => getTilesForBBox(bbox, minZoom, maxZoom) is called
\* twice and both generators are run to the end.
Enumerate ==
    /\ limit.enumerates
    /\ ~enumeration.called
    /\ \E minLon, minLat, maxLon, maxLat \in Coordinates, minZoom, maxZoom \in Zooms :
          LET bbox == <<minLon, minLat, maxLon, maxLat>>
          IN  /\ minLat <= maxLat
              /\ minZoom <= maxZoom
              /\ enumeration' = [called |-> TRUE, bbox |-> bbox, minZoom |-> minZoom,
                                 maxZoom |-> maxZoom,
                                 first |-> getTilesForBBox(bbox, minZoom, maxZoom),
                                 second |-> getTilesForBBox(bbox, minZoom, maxZoom)]
    /\ UNCHANGED <<mapRows, images, lastWriter, CachingDisabled, TilesCached, stats,
                   gets, nextJobId, ActiveJobs, jobs, runs, dels, stopSum, sampled, probe,
                   reply,
                   statistics, flip, limit>>

-----------------------------------------------------------------------------
(* chartDownloaderMBTilesHelpers: the conversion between the XYZ row of a  *)
(* tile and the TMS row the store keeps.                                   *)

\* 1 << z on 32-bit integers: the shift count is taken modulo 32 and the
\* result is signed.
ShiftLeftOne(z) ==
    LET count == z % 32
    IN  IF count = 31 THEN -2147483647 - 1 ELSE Pow2(count)

\* Faulty variant, to test the property: the row read from the store is
\* returned as it is.
tmsToXyzY_NoFlip(z, y) == y

\* lines 131-133.
xyzToTmsY(z, y) == ShiftLeftOne(z) - 1 - y

\* lines 135-137.
tmsToXyzY(z, y) == ShiftLeftOne(z) - 1 - y

StoreZooms == 0..MaxStoreZoom

\* The rows of zoom z the conversions are applied to: those near the two
\* edges and the two in the middle.
RowsOf(z) ==
    LET last == Pow2(z) - 1
    IN  { y \in (0..NumRowsNearEdge) \cup ((last - NumRowsNearEdge)..last)
                   \cup {last \div 2, (last \div 2) + 1} : 0 <= y /\ y <= last }

NoFlip == [called |-> FALSE]

\* A row goes to the store and comes back (lines 92-93, 107, 157): tms is
\* the row written for y, xyz the row read back from it; fromTms and
\* backToTms take y as a row of the store.
Flip ==
    /\ limit.flips
    /\ ~flip.called
    /\ \E z \in StoreZooms : \E y \in RowsOf(z) :
          flip' = [called |-> TRUE, z |-> z, y |-> y,
                   tms |-> xyzToTmsY(z, y),
                   xyz |-> tmsToXyzY(z, xyzToTmsY(z, y)),
                   fromTms |-> tmsToXyzY(z, y),
                   backToTms |-> xyzToTmsY(z, tmsToXyzY(z, y))]
    /\ UNCHANGED <<mapRows, images, lastWriter, CachingDisabled, TilesCached, stats,
                   gets, nextJobId, ActiveJobs, jobs, runs, dels, stopSum, sampled, probe,
                   reply,
                   statistics, enumeration, limit>>

\* The one proxied provider, the only key CacheStatistics can hold.
Provider == "provider"

\* No result of getStatistics is held.
NoStatistics == [taken |-> FALSE, keys |-> {}, values |-> <<>>]

\* lines 323-327: CacheStatistics has the provider's entry from the first
\* request on (the entry is created just before stats.requests++ and is
\* never deleted).
CacheStatisticsKeys(S) == IF S.stats.requests > 0 THEN {Provider} ELSE {}

\* lines 479-481: Object.fromEntries(CacheStatistics) makes a new object
\* with the keys the map has now; the value of a key is the map's own
\* statistics object, not a copy of it.  keys: the keys of the result;
\* values: history, the counters as they were at the call.
getStatistics ==
    /\ limit.statistics
    /\ ~statistics.taken
    /\ statistics' = [taken |-> TRUE, keys |-> CacheStatisticsKeys(St),
                      values |-> [k \in CacheStatisticsKeys(St) |-> stats]]
    /\ UNCHANGED <<mapRows, images, lastWriter, CachingDisabled, TilesCached, stats,
                   gets, nextJobId, ActiveJobs, jobs, runs, dels, stopSum, sampled, probe,
                   reply,
                   enumeration, flip, limit>>

\* What a read of result[k] gives now: the provider's statistics object.
ReadStatistics(k) == stats

GetStart(g, tile) ==
    /\ g <= limit.gets
    /\ gets[g].pc = "new"
    /\ \A h \in 1..(g - 1) : gets[h].pc # "new"
    /\ LET S1 == [St EXCEPT !.gets[g].tile = tile,
                            !.gets[g].after = {h \in 1..MaxGets : gets[h].pc = "done"}]
       IN  Apply(GetResume(CallStart(S1, FALSE), g))

GetReadDone(g, ok) ==
    /\ gets[g].pc = "read"
    /\ StoreReads(ok)
    /\ Apply(GetResume(AfterRead(St, gets[g].tile, ok), g))

\* response: what the remote did; the slot keeps it as history.
GetFetchDone(g, response) ==
    /\ gets[g].pc = "fetch"
    /\ LET buffer == fetchTileFromRemote(response)
       IN  /\ RemoteReturns(buffer)
           /\ Apply(GetResume(AfterFetch([St EXCEPT !.gets[g].response = response],
                                         buffer), g))

GetProbeDone(g, outcome) ==
    /\ gets[g].pc = "probe"
    /\ DiskProbe(outcome)
    /\ Apply(GetResume(AfterProbe(Probed(St, <<"cache">>, outcome), gets[g].buffer,
                                  hasDiskSpace(outcome)), g))

GetPutDone(g, ok) ==
    /\ gets[g].pc = "put"
    /\ StoreWrites(ok)
    /\ Apply(GetResume(AfterPut(St, gets[g].tile, gets[g].buffer, ok, <<"get", g>>), g))

-----------------------------------------------------------------------------
(* Job creation: ChartSeedingManager.createJob, the constructor and        *)
(* initalizeJobFromFeature / initializeJobFromBBox.                        *)

Min(a, b) == IF a < b THEN a ELSE b

\* countTiles: steps through a fresh iterator and stops at upperLimit.
RECURSIVE countFrom(_, _, _, _)
countFrom(tiles, pos, count, upperLimit) ==
    IF pos > Len(tiles) THEN count
    ELSE IF count + 1 >= upperLimit THEN count + 1
    ELSE countFrom(tiles, pos + 1, count + 1, upperLimit)

countTiles(tiles, upperLimit) == countFrom(tiles, 1, 0, upperLimit)

\* The fields a new ChartDownloader starts with (lines 86-108).
NewJob(options, id) ==
    [exists |-> TRUE, id |-> id, kind |-> "none", geometry |-> "absent", tiles |-> <<>>,
     options |-> options,
     type |-> TypeNone, state |-> Stopped, status |-> "Idle",
     totalTiles |-> 0, downloadedTiles |-> 0, failedTiles |-> 0,
     cachedTiles |-> 0, deletedTiles |-> 0, cancelRequested |-> FALSE]

\* estimate: what estimateTilesForGeoJSON returns for the feature.
initalizeJobFromFeature(job, tiles, estimate) ==
    [job EXCEPT !.kind = "feature", !.tiles = tiles,
                !.totalTiles = IF estimate < RefineBelow
                               THEN countTiles(tiles, CountUpperLimit)
                               ELSE estimate,
                !.state = Stopped]

initializeJobFromBBox(job, tiles) ==
    [job EXCEPT !.kind = "bbox", !.tiles = tiles, !.state = Stopped]

Range(seq) == {seq[k] : k \in 1..Len(seq)}

\* The geometry of the feature a job is asked for: a polygon, another
\* geometry (a Point, say) or none at all.
Geometries == {"Polygon", "nonPolygon", "none"}

\* lines 61-76.  The job is registered before it is initialised, and the
\* promise of the initialiser is not awaited: when convertFeatureToGeoJSON
\* throws (no geometry: normalizeGeoJSONLongitudes reads geom.type; another
\* geometry: splitGeoJSON may throw, converts = FALSE) the job stays as the
\* constructor left it.  A geometry that is no polygon and converts gives an
\* empty collection: no tiles and an estimate of 0.  geometry is kept in the
\* job as history.
createJob(options, kind, geometry, converts, tiles, estimate) ==
    /\ nextJobId <= limit.jobs
    /\ kind \in limit.kinds /\ options \in limit.options /\ tiles \in limit.regions
    /\ kind = "bbox" => (estimate = 0 /\ geometry = "Polygon")
    /\ kind = "feature" => geometry \in limit.geometries
    /\ limit.disjoint =>
          \A j \in 1..(nextJobId - 1) : Range(jobs[j].tiles) \cap Range(tiles) = {}
    /\ (geometry = "Polygon") => converts
    /\ (geometry = "none") => ~converts
    /\ LET id == nextJobId
           downloader == NewJob(options, id)
           feature == [downloader EXCEPT !.geometry = geometry]
       IN  Apply([St EXCEPT
               !.nextJobId = id + 1,
               !.ActiveJobs = @ \cup {id},
               !.jobs[id] = IF kind = "bbox"
                            THEN initializeJobFromBBox(downloader, tiles)
                            ELSE IF ~converts THEN feature
                            ELSE IF geometry = "nonPolygon"
                            THEN initalizeJobFromFeature(feature, <<>>, 0)
                            ELSE initalizeJobFromFeature(feature, tiles, estimate)])

-----------------------------------------------------------------------------
(* ChartDownloader.seedCache.                                              *)

Sum(job) == job.downloadedTiles + job.cachedTiles + job.failedTiles

AllWorkersDone(run) == \A i \in 1..Concurrency : run.workers[i].pc = "done"

\* A seedCache call that has ended keeps, as history, its job and whether
\* its iterator had reported the end of the sequence.
Finished(run) == [phase |-> "finished", job |-> run.job, exhausted |-> run.exhausted]

\* line 247: the run is over.
SeedCompleted(S, r) ==
    [S EXCEPT !.jobs[S.runs[r].job].status = "Completed",
              !.runs[r] = Finished(S.runs[r])]

\* lines 235-236: the export loop takes the next tile of its own iterator,
\* or ends (lines 245-247).
ExportNext(S, r, xpos) ==
    IF xpos <= Len(S.jobs[S.runs[r].job].tiles)
    THEN [S EXCEPT !.runs[r].phase = "xread", !.runs[r].xpos = xpos]
    ELSE SeedCompleted(S, r)

\* lines 222-234: Promise.all has resolved.
AfterPromiseAll(S, r) ==
    LET j == S.runs[r].job
        S1 == [S EXCEPT !.jobs[j].state = Stopped]
        S2 == [S1 EXCEPT !.runs[r] = [phase |-> "joined", job |-> j, xpos |-> 0,
                                      exhausted |-> S.runs[r].generatorDone]]
    IN  IF S2.jobs[j].options.mbtiles
        THEN [S2 EXCEPT !.jobs[j].status = "Creating MBTiles",
                        !.runs[r].phase = "open"]
        ELSE SeedCompleted(S2, r)

\* A worker's promise resolves; the last one resolves Promise.all.
WorkerExit(S, r, i) ==
    LET S1 == [S EXCEPT !.runs[r].workers[i] = DoneWorker]
    IN  IF AllWorkersDone(S1.runs[r]) THEN AfterPromiseAll(S1, r) ELSE S1

\* lines 193-199: the worker calls the tile cache for the tile it holds.
\* requested: history, how often the run has asked the tile cache for each tile.
WorkerCall(S, r, i, tile) ==
    LET res == CallStart(S, S.jobs[S.runs[r].job].options.refetch)
    IN  [res.S EXCEPT !.runs[r].workers[i] =
            [pc |-> res.pc, tile |-> tile, buffer |-> res.buffer, readFailed |-> FALSE],
                      !.runs[r].requested[tile] = @ + 1]

\* Faulty variant, to test the property: the iterator is advanced twice for each tile handed out.
WorkerLoop_SkipsTile(S, r, i) ==
    LET run == S.runs[r]
        job == S.jobs[run.job]
    IN  IF job.cancelRequested THEN WorkerExit(S, r, i)
        ELSE IF run.generatorDone \/ job.cancelRequested THEN WorkerExit(S, r, i)
        ELSE IF run.pos > Len(job.tiles)
        THEN WorkerExit([S EXCEPT !.runs[r].generatorDone = TRUE], r, i)
        ELSE LET tile == job.tiles[run.pos]
                 current == run.tileCounter + 1
                 S1 == [S EXCEPT !.runs[r].pos = @ + 2,
                                 !.runs[r].tileCounter = current]
             IN  IF current % DiskCheckEvery = 0
                 THEN [S1 EXCEPT !.runs[r].workers[i] =
                          [pc |-> "disk", tile |-> tile, buffer |-> Null,
                           readFailed |-> FALSE]]
                 ELSE WorkerCall(S1, r, i, tile)

\* Faulty variant, to test the property: the loop pulls the next tile whatever cancelRequested is.
WorkerLoop_IgnoresCancel(S, r, i) ==
    LET run == S.runs[r]
        job == S.jobs[run.job]
    IN  IF run.generatorDone THEN WorkerExit(S, r, i)
        ELSE IF run.pos > Len(job.tiles)
        THEN WorkerExit([S EXCEPT !.runs[r].generatorDone = TRUE], r, i)
        ELSE LET tile == job.tiles[run.pos]
                 current == run.tileCounter + 1
                 S1 == [S EXCEPT !.runs[r].pos = @ + 1,
                                 !.runs[r].tileCounter = current]
             IN  IF current % DiskCheckEvery = 0
                 THEN [S1 EXCEPT !.runs[r].workers[i] =
                          [pc |-> "disk", tile |-> tile, buffer |-> Null,
                           readFailed |-> FALSE]]
                 ELSE WorkerCall(S1, r, i, tile)

\* lines 180-191: loop test, nextTile (lines 167-177), the tile counter.
WorkerLoop(S, r, i) ==
    LET run == S.runs[r]
        job == S.jobs[run.job]
    IN  IF job.cancelRequested THEN WorkerExit(S, r, i)
        ELSE IF run.generatorDone \/ job.cancelRequested THEN WorkerExit(S, r, i)
        ELSE IF run.pos > Len(job.tiles)
        THEN WorkerExit([S EXCEPT !.runs[r].generatorDone = TRUE], r, i)
        ELSE LET tile == job.tiles[run.pos]
                 current == run.tileCounter + 1
                 S1 == [S EXCEPT !.runs[r].pos = @ + 1,
                                 !.runs[r].tileCounter = current]
             IN  IF current % DiskCheckEvery = 0
                 THEN [S1 EXCEPT !.runs[r].workers[i] =
                          [pc |-> "disk", tile |-> tile, buffer |-> Null,
                           readFailed |-> FALSE]]
                 ELSE WorkerCall(S1, r, i, tile)

\* Faulty variant, to test the property: the result is counted and totalTiles is left as it is.
WorkerCount_NoRaise(S, r, i, ret) ==
    LET j == S.runs[r].job
        S1 == IF ret.source = SourceNone
              THEN [S EXCEPT !.jobs[j].failedTiles = @ + 1]
              ELSE IF ret.source = FetchedFromCache
              THEN [S EXCEPT !.jobs[j].cachedTiles = @ + 1]
              ELSE [S EXCEPT !.jobs[j].downloadedTiles = @ + 1]
    IN  WorkerLoop(S1, r, i)

\* Faulty variant, to test the property: a tile that failed ends the worker.
WorkerCount_AbortsOnFailure(S, r, i, ret) ==
    LET j == S.runs[r].job
        S1 == IF ret.source = SourceNone
              THEN [S EXCEPT !.jobs[j].failedTiles = @ + 1]
              ELSE IF ret.source = FetchedFromCache
              THEN [S EXCEPT !.jobs[j].cachedTiles = @ + 1]
              ELSE [S EXCEPT !.jobs[j].downloadedTiles = @ + 1]
        S2 == IF S1.jobs[j].totalTiles < Sum(S1.jobs[j])
              THEN [S1 EXCEPT !.jobs[j].totalTiles = Sum(S1.jobs[j])]
              ELSE S1
    IN  IF ret.source = SourceNone THEN WorkerExit(S2, r, i) ELSE WorkerLoop(S2, r, i)

\* Faulty variant, to test the property: totalTiles is raised to the tiles
\* that gave bytes, the failed ones left out.
WorkerCount_FailedUnraised(S, r, i, ret) ==
    LET j == S.runs[r].job
        S1 == IF ret.source = SourceNone
              THEN [S EXCEPT !.jobs[j].failedTiles = @ + 1]
              ELSE IF ret.source = FetchedFromCache
              THEN [S EXCEPT !.jobs[j].cachedTiles = @ + 1]
              ELSE [S EXCEPT !.jobs[j].downloadedTiles = @ + 1]
        got == S1.jobs[j].downloadedTiles + S1.jobs[j].cachedTiles
        S2 == IF S1.jobs[j].totalTiles < got
              THEN [S1 EXCEPT !.jobs[j].totalTiles = got]
              ELSE S1
    IN  WorkerLoop(S2, r, i)

\* lines 201-214: count the result, raise totalTiles, go round the loop.
WorkerCount(S, r, i, ret) ==
    LET j == S.runs[r].job
        S1 == IF ret.source = SourceNone
              THEN [S EXCEPT !.jobs[j].failedTiles = @ + 1]
              ELSE IF ret.source = FetchedFromCache
              THEN [S EXCEPT !.jobs[j].cachedTiles = @ + 1]
              ELSE [S EXCEPT !.jobs[j].downloadedTiles = @ + 1]
        S2 == IF S1.jobs[j].totalTiles < Sum(S1.jobs[j])
              THEN [S1 EXCEPT !.jobs[j].totalTiles = Sum(S1.jobs[j])]
              ELSE S1
    IN  WorkerLoop(S2, r, i)

\* The worker's call of the tile cache has reached res.
WorkerResume(res, r, i) ==
    IF res.pc = "ret"
    THEN WorkerCount(res.S, r, i, res.ret)
    ELSE [res.S EXCEPT !.runs[r].workers[i].pc = res.pc,
                       !.runs[r].workers[i].buffer = res.buffer]

\* line 221: the workers are created one after the other; each runs up to
\* its first await.
RECURSIVE StartWorkers(_, _, _)
StartWorkers(S, r, i) ==
    IF i > Concurrency THEN S
    ELSE StartWorkers(WorkerLoop(S, r, i), r, i + 1)

\* lines 154-221.  cachingAtStart keeps, as history, that caching was
\* enabled when the call was made.
seedCache(S, j, r) ==
    LET S1 == [S EXCEPT
                 !.jobs[j].cancelRequested = FALSE,
                 !.jobs[j].state = Running,
                 !.jobs[j].downloadedTiles = 0,
                 !.jobs[j].cachedTiles = 0,
                 !.jobs[j].failedTiles = 0,
                 !.jobs[j].type = TypeSeed,
                 !.jobs[j].status = "Seeding",
                 !.stopSum[j] = -1,
                 !.runs[r] = [phase |-> "seeding", job |-> j, pos |-> 1,
                              generatorDone |-> FALSE, tileCounter |-> 0,
                              requested |-> [t \in Tiles |-> 0], diskFull |-> FALSE,
                              cachingAtStart |-> ~S.CachingDisabled,
                              workers |-> [i \in 1..Concurrency |-> NoWorker]]]
    IN  IF S.jobs[j].kind = "none"
        THEN [S1 EXCEPT !.jobs[j].status = S.jobs[j].status,
                        !.runs[r] = [phase |-> "finished", job |-> j,
                                     exhausted |-> FALSE]]
        ELSE StartWorkers(S1, r, 1)

WorkerAt(r, i, pc) ==
    /\ runs[r].phase = "seeding"
    /\ runs[r].workers[i].pc = pc

\* Faulty variant, to test the property: a probe that finds space turns
\* caching on again.
WorkerDiskDone_ReenablesCaching(r, i, outcome) ==
    /\ WorkerAt(r, i, "disk")
    /\ DiskProbe(outcome)
    /\ LET j == runs[r].job
           S == Probed(St, <<"seed", r>>, outcome)
       IN  IF ~hasDiskSpace(outcome)
           THEN Apply(WorkerExit([S EXCEPT !.jobs[j].state = Stopped,
                                            !.jobs[j].cancelRequested = TRUE,
                                            !.runs[r].diskFull = TRUE], r, i))
           ELSE Apply(WorkerCall([S EXCEPT !.CachingDisabled = FALSE], r, i,
                                 runs[r].workers[i].tile))

\* lines 185-191: the worker's free-space probe has completed.  diskFull
\* keeps, as history, that a probe of the run found too little space.
WorkerDiskDone(r, i, outcome) ==
    /\ WorkerAt(r, i, "disk")
    /\ DiskProbe(outcome)
    /\ LET j == runs[r].job
           S == Probed(St, <<"seed", r>>, outcome)
       IN  IF ~hasDiskSpace(outcome)
           THEN Apply(WorkerExit([S EXCEPT !.jobs[j].state = Stopped,
                                           !.jobs[j].cancelRequested = TRUE,
                                           !.runs[r].diskFull = TRUE], r, i))
           ELSE Apply(WorkerCall(S, r, i, runs[r].workers[i].tile))

\* readFailed keeps, as history, that the store read for the tile failed.
WorkerReadDone(r, i, ok) ==
    /\ WorkerAt(r, i, "read")
    /\ StoreReads(ok)
    /\ LET S1 == WorkerResume(AfterRead(St, runs[r].workers[i].tile, ok), r, i)
       IN  IF ok THEN Apply(S1)
           ELSE Apply([S1 EXCEPT !.runs[r].workers[i].readFailed = TRUE])

WorkerFetchDone(r, i, response) ==
    /\ WorkerAt(r, i, "fetch")
    /\ LET buffer == fetchTileFromRemote(response)
       IN  /\ RemoteReturns(buffer)
           /\ Apply(WorkerResume(AfterFetch(St, buffer), r, i))

WorkerProbeDone(r, i, outcome) ==
    /\ WorkerAt(r, i, "probe")
    /\ DiskProbe(outcome)
    /\ Apply(WorkerResume(AfterProbe(Probed(St, <<"cache">>, outcome),
                                     runs[r].workers[i].buffer, hasDiskSpace(outcome)),
                          r, i))

WorkerPutDone(r, i, ok) ==
    /\ WorkerAt(r, i, "put")
    /\ StoreWrites(ok)
    /\ Apply(WorkerResume(AfterPut(St, runs[r].workers[i].tile,
                                   runs[r].workers[i].buffer, ok, <<"seed", r>>), r, i))

\* lines 227-236: openOrCreateMbtiles has settled; a rejection ends seedCache.
ExportOpened(r, ok) ==
    /\ runs[r].phase = "open"
    /\ StoreWrites(ok)
    /\ IF ok THEN Apply(ExportNext(St, r, 1))
             ELSE Apply([St EXCEPT !.runs[r] = Finished(runs[r])])

\* lines 237-243: the read of the cache store for the export has completed.
ExportReadDone(r, ok) ==
    /\ runs[r].phase = "xread"
    /\ StoreReads(ok)
    /\ LET tile == jobs[runs[r].job].tiles[runs[r].xpos]
           res == cacheTileToMbTiles(St, IF ok THEN getTile(St, tile) ELSE Null)
       IN  IF res.pc = "put"
           THEN Apply([St EXCEPT !.runs[r].phase = "xput"])
           ELSE Apply(ExportNext(St, r, runs[r].xpos + 1))

\* lines 417-426: the write to the export store has called back.
ExportPutDone(r, ok) ==
    /\ runs[r].phase = "xput"
    /\ StoreWrites(ok)
    /\ LET S1 == IF ok THEN TileCached(St) ELSE St
       IN  Apply(ExportNext(S1, r, runs[r].xpos + 1))

-----------------------------------------------------------------------------
(* ChartDownloader.deleteCache with deleteTilesInChunks and                *)
(* purgeAllOrphanImages (chartDownloaderMBTilesHelpers.ts).                *)

\* getMBTilesForPolygon: the tiles of the region that have a map row.
getMBTilesForPolygon(S, tiles) == SelectSeq(tiles, LAMBDA t : S.mapRows[t] # Null)

Referenced(S) == {S.mapRows[t] : t \in Tiles} \ {Null}
Orphans(S) == S.images \ Referenced(S)

\* takeChunk: up to size tiles from the front of the sequence.
takeChunkOf(rows, size) == SubSeq(rows, 1, Min(Len(rows), size))
\* Faulty variant, to test the property: a tile is lost between two chunks.
dropChunkOf_SkipsOne(rows, size) == SubSeq(rows, Min(Len(rows), size) + 2, Len(rows))

dropChunkOf(rows, size) == SubSeq(rows, Min(Len(rows), size) + 1, Len(rows))

\* lines 274-279 of chartDownloader.ts.  The ended call keeps, as history,
\* that it ran to its end, the value TilesCached had when it began, the
\* number of map rows it found and removed, and the statuses it has set.
DeleteCompleted(S, d) ==
    LET j == S.dels[d].job
        vacuumed == IF S.jobs[j].options.vacuum
                    THEN <<"Vacuuming MBTiles database">> ELSE <<>>
    IN  [S EXCEPT !.jobs[j].status = "Completed",
                  !.jobs[j].state = Stopped,
                  !.dels[d] = [phase |-> "finished", job |-> j, completed |-> TRUE,
                               cachedAtStart |-> S.dels[d].cachedAtStart,
                               found |-> S.dels[d].found,
                               removed |-> S.dels[d].removed,
                               total |-> S.dels[d].total,
                               stopped |-> S.dels[d].stopped,
                               chunks |-> S.dels[d].chunks,
                               statuses |-> S.dels[d].statuses \o vacuumed \o <<"Completed">>]]

\* Faulty variant, to test the property: the chunk is taken from all the
\* images, referenced or not.
purgeOrphanImagesChunk_AnyImage(S, chunkLimit) ==
    LET n == Min(Cardinality(S.images), chunkLimit)
    IN  CHOOSE sub \in SUBSET S.images : Cardinality(sub) = n

\* purgeOrphanImagesChunk: deletes up to limit images no map row references.
purgeOrphanImagesChunk(S, chunkLimit) ==
    LET n == Min(Cardinality(Orphans(S)), chunkLimit)
    IN  CHOOSE sub \in SUBSET Orphans(S) : Cardinality(sub) = n

\* purgeAllOrphanImages, one pass of its loop, with the onProgress of
\* deleteCache (lines 267-272); ends the run when nothing was deleted.
\* total: its local variable; chunks: history, the counts it has reported.
PurgeLoop(S, d) ==
    LET j == S.dels[d].job
        sub == purgeOrphanImagesChunk(S, PurgeChunkSize)
        deleted == Cardinality(sub)
    IN  IF deleted > 0
        THEN [S EXCEPT !.images = @ \ sub,
                       !.jobs[j].deletedTiles = @ + deleted,
                       !.dels[d].total = @ + deleted,
                       !.dels[d].chunks = Append(@, deleted),
                       !.dels[d].phase = "purging"]
        ELSE DeleteCompleted(S, d)

\* Faulty variant, to test the property: the images of the chunk are
\* deleted with its map rows.
DeleteLoop_DropsImages(S, d) ==
    LET j == S.dels[d].job
        chunk == takeChunkOf(S.dels[d].rows, ChunkSize)
        gone == {chunk[k] : k \in 1..Len(chunk)}
    IN  IF Len(chunk) > 0
        THEN [S EXCEPT !.images = @ \ {S.mapRows[t] : t \in gone},
                       !.mapRows = [t \in Tiles |-> IF t \in gone THEN Null ELSE @[t]],
                       !.lastWriter = [t \in Tiles |->
                                          IF t \in gone /\ S.mapRows[t] # Null
                                          THEN <<"delete", d>> ELSE @[t]],
                       !.dels[d].rows = dropChunkOf(S.dels[d].rows, ChunkSize),
                       !.dels[d].removed = @ + Cardinality({t \in gone : S.mapRows[t] # Null}),
                       !.dels[d].phase = "deleting"]
        ELSE PurgeLoop([S EXCEPT !.jobs[j].status = "Purging orphaned images",
                                 !.dels[d].statuses = Append(@, "Purging orphaned images")], d)

\* deleteTilesInChunks, one pass of its loop (lines 147-166); an empty chunk
\* ends it and the purge starts (chartDownloader.ts lines 263-264).
DeleteLoop(S, d) ==
    LET j == S.dels[d].job
        chunk == takeChunkOf(S.dels[d].rows, ChunkSize)
        gone == {chunk[k] : k \in 1..Len(chunk)}
    IN  IF Len(chunk) > 0
        THEN [S EXCEPT !.mapRows = [t \in Tiles |-> IF t \in gone THEN Null ELSE @[t]],
                       !.lastWriter = [t \in Tiles |->
                                          IF t \in gone /\ S.mapRows[t] # Null
                                          THEN <<"delete", d>> ELSE @[t]],
                       !.dels[d].rows = dropChunkOf(S.dels[d].rows, ChunkSize),
                       !.dels[d].removed = @ + Cardinality({t \in gone : S.mapRows[t] # Null}),
                       !.dels[d].phase = "deleting"]
        ELSE PurgeLoop([S EXCEPT !.jobs[j].status = "Purging orphaned images",
                                 !.dels[d].statuses = Append(@, "Purging orphaned images")], d)

\* lines 250-262.  A job made from a bbox has no tilesInDB: calling it
\* throws and deleteCache ends there, rejected.
deleteCache(S, j, d) ==
    LET S1 == [S EXCEPT !.jobs[j].state = Running,
                        !.jobs[j].deletedTiles = 0,
                        !.jobs[j].type = TypeDelete,
                        !.jobs[j].status = "Deleting tiles"]
    IN  IF S1.jobs[j].kind # "feature"
        THEN [S1 EXCEPT !.dels[d] = [phase |-> "finished", job |-> j,
                                     completed |-> FALSE,
                                     cachedAtStart |-> S.TilesCached,
                                     found |-> 0, removed |-> 0,
                                     total |-> 0, chunks |-> <<>>, stopped |-> FALSE,
                                     statuses |-> <<"Deleting tiles">>]]
        ELSE DeleteLoop([S1 EXCEPT !.dels[d] =
                 [phase |-> "deleting", job |-> j, cachedAtStart |-> S.TilesCached,
                  found |-> Len(getMBTilesForPolygon(S1, S1.jobs[j].tiles)),
                  removed |-> 0, total |-> 0, chunks |-> <<>>, stopped |-> FALSE,
                  statuses |-> <<"Deleting tiles">>,
                  rows |-> getMBTilesForPolygon(S1, S1.jobs[j].tiles)]], d)

\* The timer of deleteTilesInChunks (line 164) has fired.
DeleteChunkDone(d) ==
    /\ dels[d].phase = "deleting"
    /\ Apply(DeleteLoop(St, d))

\* The setImmediate of purgeAllOrphanImages (line 201) has fired.
PurgeChunkDone(d) ==
    /\ dels[d].phase = "purging"
    /\ Apply(PurgeLoop(St, d))

-----------------------------------------------------------------------------
(* POST /chart-tiles/cache/jobs/:id (index.ts lines 356-378) and cancelJob *)

\* The calls of seedCache and of deleteCache are numbered as they are made.
FreeRun == CHOOSE r \in 1..MaxSeedRuns :
              /\ runs[r].phase = "free"
              /\ \A q \in 1..(r - 1) : runs[q].phase # "free"
FreeDel == CHOOSE d \in 1..MaxDeleteRuns :
              /\ dels[d].phase = "free"
              /\ \A q \in 1..(d - 1) : dels[q].phase # "free"

\* index.ts lines 356-378, POST /cache/jobs/:id.  The responses:
NothingSent == 0
ControlActions == {"start", "stop", "delete", "remove"}
\* what req.body.action can be: a control action, another string, or absent.
PostedActions == ControlActions \cup {"other", "absent"}

NoReply == [posted |-> FALSE]

\* res.status(status).send(...), or the handler returning without it.
Respond(S, id, action, status) ==
    IF limit.replies
    THEN [S EXCEPT !.reply = [posted |-> TRUE, id |-> id, action |-> action,
                              known |-> id \in S.ActiveJobs, status |-> status]]
    ELSE S

Start(j) ==
    /\ j \in ActiveJobs
    /\ \E r \in 1..limit.seedRuns : runs[r].phase = "free"
    /\ Apply(seedCache(Respond(St, j, "start", 200), j, FreeRun))

\* lines 282-284.  stopped: history, a delete run of the job was under way.
cancelJob(S, j) ==
    [S EXCEPT !.jobs[j].cancelRequested = TRUE,
              !.stopSum[j] = Sum(S.jobs[j]),
              !.dels = [d \in 1..MaxDeleteRuns |->
                          IF S.dels[d].phase \in {"deleting", "purging"} /\ S.dels[d].job = j
                          THEN [S.dels[d] EXCEPT !.stopped = TRUE]
                          ELSE S.dels[d]]]

Stop(j) ==
    /\ j \in ActiveJobs
    /\ Apply(cancelJob(Respond(St, j, "stop", 200), j))

Delete(j) ==
    /\ j \in ActiveJobs
    /\ \E d \in 1..limit.delRuns : dels[d].phase = "free"
    /\ Apply(deleteCache(Respond(St, j, "delete", 200), j, FreeDel))

\* Faulty variant, to test the property: removing the newest job gives its
\* id back.
Remove_ReleasesId(j) ==
    /\ j \in ActiveJobs
    /\ Apply([Respond(St, j, "remove", 200) EXCEPT
                 !.ActiveJobs = @ \ {j},
                 !.nextJobId = IF j = @ - 1 THEN j ELSE @])

Remove(j) ==
    /\ j \in ActiveJobs
    /\ Apply([Respond(St, j, "remove", 200) EXCEPT !.ActiveJobs = @ \ {j}])

\* lines 370-372: the job exists and the action is none of the four.
PostOtherAction(j) ==
    /\ limit.replies
    /\ j \in ActiveJobs
    /\ Apply(Respond(St, j, "other", 404))

\* line 362 is false (no job of that id, or no action in the body): the
\* handler returns without having sent anything.
PostIgnored(id, action) ==
    /\ limit.replies
    /\ id \notin ActiveJobs \/ action = "absent"
    /\ Apply(Respond(St, id, action, NothingSent))

-----------------------------------------------------------------------------
\* The options a job is created with in the explored scenarios.
Plain == [refetch |-> FALSE, mbtiles |-> FALSE, vacuum |-> FALSE]
Refetch == [refetch |-> TRUE, mbtiles |-> FALSE, vacuum |-> FALSE]
Export == [refetch |-> FALSE, mbtiles |-> TRUE, vacuum |-> TRUE]
Options == {Plain, Refetch, Export}
Kinds == {"feature", "bbox"}

InitState ==
    /\ mapRows = [t \in Tiles |-> Null]
    /\ images = {}
    /\ lastWriter = [t \in Tiles |-> <<"nobody", 0>>]
    /\ CachingDisabled = FALSE
    /\ TilesCached = 0
    /\ stats = [requests |-> 0, hits |-> 0, misses |-> 0, failures |-> 0]
    /\ gets = [g \in 1..MaxGets |-> NoGet]
    /\ nextJobId = 1
    /\ ActiveJobs = {}
    /\ jobs = [j \in 1..MaxJobs |-> NoJob]
    /\ runs = [r \in 1..MaxSeedRuns |-> NoRun]
    /\ dels = [d \in 1..MaxDeleteRuns |-> NoDel]
    /\ stopSum = [j \in 1..MaxJobs |-> -1]
    /\ sampled = FALSE
    /\ probe = NoProbe
    /\ reply = NoReply
    /\ statistics = NoStatistics
    /\ enumeration = NoEnumeration
    /\ flip = NoFlip

\* An explored scenario: how many tile GETs, jobs, seedCache calls and
\* deleteCache calls a behaviour holds, which jobs can be created, and what
\* the environment does.
Scenario(g, j, s, d, kinds, options, regions, remote, storeErrors, lowDisk) ==
    [gets |-> g, jobs |-> j, seedRuns |-> s, delRuns |-> d,
     kinds |-> kinds, options |-> options, regions |-> regions,
     remote |-> remote, storeErrors |-> storeErrors, lowDisk |-> lowDisk,
     readErrors |-> FALSE, geometries |-> {"Polygon"}, disjoint |-> FALSE,
     statistics |-> FALSE, enumerates |-> FALSE, flips |-> FALSE,
     replies |-> FALSE, samples |-> FALSE, probes |-> FALSE]

\* No request arrives; the tiles of a bbox are enumerated.
Enumerates ==
    [Scenario(0, 0, 0, 0, {}, {}, {}, {}, FALSE, FALSE) EXCEPT !.enumerates = TRUE]

\* No request arrives; a row is converted at the store boundary.
Flips ==
    [Scenario(0, 0, 0, 0, {}, {}, {}, {}, FALSE, FALSE) EXCEPT !.flips = TRUE]

\* The scenario in which the responses of the job-control endpoint are watched.
WithReplies(scenario) == [scenario EXCEPT !.replies = TRUE]

\* The scenario in which the free-space probes of the tile cache are watched.
WithSamples(scenario) == [scenario EXCEPT !.samples = TRUE]

\* The scenario in which the outcomes of the free-space probes are watched.
WithProbes(scenario) == [scenario EXCEPT !.probes = TRUE]

\* The scenario in which a caller takes the statistics.
WithStatistics(scenario) == [scenario EXCEPT !.statistics = TRUE]

\* The scenario in which store reads can fail as well.
WithReadErrors(scenario) == [scenario EXCEPT !.readErrors = TRUE]

\* The scenario in which features of every geometry are submitted.
WithAnyGeometry(scenario) == [scenario EXCEPT !.geometries = Geometries]

AnyBuffer == Bytes \cup {Null}

\* The regions of the scenarios with one job: all the tiles, or one of them.
LongAndShort == { <<1, 2, 3>>, <<2>> }

\* Two jobs over disjoint regions, each seeded; every fetch gives bytes.
TwoSeeds ==
    [Scenario(0, 2, 2, 0, {"bbox"}, {Plain}, {<<1, 3>>, <<2>>}, {1}, FALSE, FALSE)
        EXCEPT !.disjoint = TRUE]

Scenarios ==
    { Scenario(MaxGets, 0, 0, 0, {}, {}, {}, AnyBuffer, TRUE, TRUE),
      Scenario(0, 1, 1, 0, Kinds, Options, LongAndShort, AnyBuffer, TRUE, TRUE),
      Scenario(1, 1, 1, 0, {"bbox"}, {Plain, Refetch}, LongAndShort, {1, Null}, FALSE, FALSE),
      Scenario(1, 1, 1, 0, {"bbox"}, {Refetch}, {<<2>>}, AnyBuffer, FALSE, TRUE),
      Scenario(0, 1, MaxSeedRuns, 0, {"bbox"}, {Plain}, LongAndShort, {1}, FALSE, FALSE),
      Scenario(0, 1, 1, MaxDeleteRuns, Kinds, {Plain, Export}, LongAndShort, Bytes, FALSE, FALSE),
      WithReadErrors(Scenario(0, 1, 1, 0, {"bbox"}, {Plain}, {<<1, 2, 3>>}, {1, Null},
                              TRUE, FALSE)),
      WithAnyGeometry(Scenario(0, MaxJobs, 1, MaxDeleteRuns, {"feature"}, {Plain}, {<<2>>},
                               {1}, FALSE, FALSE)),
      TwoSeeds,
      WithStatistics(Scenario(MaxGets, 0, 0, 0, {}, {}, {}, {1, Null}, FALSE, FALSE)),
      Enumerates,
      Flips,
      WithReplies(Scenario(0, 1, 1, MaxDeleteRuns, {"bbox"}, {Plain}, {<<2>>}, {1},
                           FALSE, FALSE)),
      Scenario(0, 1, MaxSeedRuns, 0, {"bbox"}, {Refetch}, {<<1, 2, 3>>}, {Null}, FALSE, TRUE),
      WithSamples(Scenario(1, 1, 1, 0, {"bbox"}, {Refetch}, {<<1, 2, 3>>}, {1}, FALSE, FALSE)),
      Scenario(MaxGets, 1, 0, MaxDeleteRuns, {"feature"}, {Plain}, {<<2>>}, Bytes, FALSE, FALSE),
      WithProbes(Scenario(0, 1, 1, 0, {"bbox"}, {Plain}, {<<1, 2, 3>>}, {1}, FALSE, TRUE)) }

Init ==
    /\ InitState
    /\ limit \in Scenarios

\* Completions of I/O the program is waiting for.
IOStep ==
    \/ \E g \in 1..MaxGets, ok \in BOOLEAN : GetReadDone(g, ok)
    \/ \E g \in 1..MaxGets, response \in Responses : GetFetchDone(g, response)
    \/ \E g \in 1..MaxGets, outcome \in ProbeOutcomes : GetProbeDone(g, outcome)
    \/ \E g \in 1..MaxGets, ok \in BOOLEAN : GetPutDone(g, ok)
    \/ \E r \in 1..MaxSeedRuns, i \in 1..Concurrency, outcome \in ProbeOutcomes :
          WorkerDiskDone(r, i, outcome)
    \/ \E r \in 1..MaxSeedRuns, i \in 1..Concurrency, ok \in BOOLEAN :
          WorkerReadDone(r, i, ok)
    \/ \E r \in 1..MaxSeedRuns, i \in 1..Concurrency, response \in Responses :
          WorkerFetchDone(r, i, response)
    \/ \E r \in 1..MaxSeedRuns, i \in 1..Concurrency, outcome \in ProbeOutcomes :
          WorkerProbeDone(r, i, outcome)
    \/ \E r \in 1..MaxSeedRuns, i \in 1..Concurrency, ok \in BOOLEAN :
          WorkerPutDone(r, i, ok)
    \/ \E r \in 1..MaxSeedRuns, ok \in BOOLEAN : ExportOpened(r, ok)
    \/ \E r \in 1..MaxSeedRuns, ok \in BOOLEAN : ExportReadDone(r, ok)
    \/ \E r \in 1..MaxSeedRuns, ok \in BOOLEAN : ExportPutDone(r, ok)
    \/ \E d \in 1..MaxDeleteRuns : DeleteChunkDone(d)
    \/ \E d \in 1..MaxDeleteRuns : PurgeChunkDone(d)

\* Requests arriving over HTTP.
Request ==
    \/ \E g \in 1..MaxGets, tile \in Tiles : GetStart(g, tile)
    \/ \E options \in Options, kind \in Kinds, geometry \in Geometries,
          converts \in BOOLEAN, tiles \in Regions, estimate \in 0..MaxEstimate :
             createJob(options, kind, geometry, converts, tiles, estimate)
    \/ \E j \in 1..MaxJobs : Start(j)
    \/ \E j \in 1..MaxJobs : Stop(j)
    \/ \E j \in 1..MaxJobs : Delete(j)
    \/ \E j \in 1..MaxJobs : Remove(j)
    \/ \E j \in 1..MaxJobs : PostOtherAction(j)
    \/ \E id \in 1..MaxJobs, action \in PostedActions : PostIgnored(id, action)
    \/ getStatistics

Next == Request \/ IOStep \/ Enumerate \/ Flip

Spec == Init /\ [][Next]_vars

\* The scenarios explored under fairness.
FairScenarios ==
    { WithStatistics(Scenario(1, 0, 0, 0, {}, {}, {}, {1, Null}, FALSE, TRUE)),
      Scenario(0, 1, 1, MaxDeleteRuns, {"bbox"}, {Export}, {<<1, 2, 3>>}, {1}, FALSE, FALSE),
      Scenario(0, 1, 1, MaxDeleteRuns, {"feature"}, {Export}, {<<2>>}, {1}, FALSE, FALSE),
      Enumerates,
      Flips,
      WithReplies(Scenario(0, 1, 0, 0, {"bbox"}, {Plain}, {<<2>>}, {1}, FALSE, FALSE)) }

FairInit ==
    /\ InitState
    /\ limit \in FairScenarios

\* The scenarios explored under fairness for the purge: those of
\* FairScenarios and one in which tiles of different content are cached
\* and then deleted.
PurgeScenarios ==
    FairScenarios \cup
    { Scenario(MaxGets, 1, 0, MaxDeleteRuns, {"feature"}, {Plain}, {<<1, 2, 3>>}, Bytes,
               FALSE, FALSE) }

PurgeInit ==
    /\ InitState
    /\ limit \in PurgeScenarios

\* Every I/O the program waits for completes (or fails) and its callback
\* runs: the event loop cannot leave a completion pending for ever.  No
\* request has to arrive.
FairSpec == FairInit /\ [][Next]_vars /\ WF_vars(IOStep)

PurgeFairSpec == PurgeInit /\ [][Next]_vars /\ WF_vars(IOStep)

-----------------------------------------------------------------------------
(* Properties.                                                             *)

GetIds == 1..MaxGets
JobIds == 1..MaxJobs
RunIds == 1..MaxSeedRuns
WorkerIds == 1..Concurrency
CallPcs == {"read", "fetch", "probe", "put"}

GetDone(g) == gets[g].pc = "done"

\* C1: a tile GET that finds nothing in the cache, gets bytes from the
\* remote and finds caching enabled returns those bytes with source
\* fromRemote; a GET of the same tile that starts after such a call has
\* returned, while the row that call wrote is still the tile's row, returns
\* the same bytes with source fromCache.
C1_RemoteThenCache ==
    \A g \in GetIds : GetDone(g) =>
        /\ (gets[g].ret.source # FetchedFromCache /\ gets[g].buffer # Null
              /\ ~CachingDisabled)
           => gets[g].ret = [buffer |-> gets[g].buffer, source |-> FetchedFromRemote]
        /\ \A h \in gets[g].after :
              (gets[h].tile = gets[g].tile /\ gets[h].ret.source = FetchedFromRemote
                 /\ lastWriter[gets[g].tile] = <<"get", h>>)
              => gets[g].ret = [buffer |-> gets[h].ret.buffer,
                                source |-> FetchedFromCache]

C1_Witness ==
    \E g \in GetIds : \E h \in gets[g].after :
        /\ GetDone(g) /\ gets[h].tile = gets[g].tile
        /\ gets[h].ret.source = FetchedFromRemote
        /\ gets[g].ret.source = FetchedFromCache
        /\ gets[g].ret.buffer = gets[h].ret.buffer
        /\ stats = [requests |-> 2, hits |-> 1, misses |-> 1, failures |-> 0]

\* C2: once CachingDisabled is set, a tile GET whose remote fetch returned
\* bytes returns those bytes.
C2_ServedWithoutCaching ==
    \A g \in GetIds :
        (GetDone(g) /\ CachingDisabled /\ gets[g].buffer # Null)
        => gets[g].ret.buffer = gets[g].buffer

\* The calls of getTileFromCacheOrRemote that have not returned.
InFlight ==
    Cardinality({g \in GetIds : gets[g].pc \in CallPcs})
    + Cardinality({<<r, i>> \in RunIds \X WorkerIds :
                      runs[r].phase = "seeding" /\ runs[r].workers[i].pc \in CallPcs})

Counted == stats.hits + stats.misses + stats.failures

Acts(r, i) ==
    /\ runs[r].phase = "seeding"
    /\ runs[r].workers[i].pc \notin {"new", "done"}
    /\ IF runs'[r].phase = "seeding"
       THEN runs'[r].workers[i] # runs[r].workers[i]
       ELSE \A k \in WorkerIds \ {i} : runs[r].workers[k].pc = "done"

\* In the step the call of getTileFromCacheOrRemote made by worker i of r returns.
Returns(r, i) ==
    /\ Acts(r, i)
    /\ runs[r].workers[i].pc \in CallPcs
    /\ ~ (/\ runs'[r].phase = "seeding"
          /\ runs'[r].workers[i].pc \in CallPcs
          /\ runs'[r].workers[i].tile = runs[r].workers[i].tile)

getTileNext(tile) ==
    IF mapRows'[tile] # Null /\ mapRows'[tile] \in images' THEN mapRows'[tile] ELSE Null

\* C4: a call with refetch = true whose fetch gave bytes returns fromRemote
\* (the worker counts the tile as downloaded) and, when it returns, the
\* store holds the fetched bytes for the tile.
C4_AlwaysFromRemote ==
    [][\A r \in RunIds, i \in WorkerIds :
         (/\ Returns(r, i)
          /\ jobs[runs[r].job].options.refetch
          /\ runs[r].workers[i].pc \in {"probe", "put"}
          /\ runs[r].workers[i].buffer # Null) =>
            LET j == runs[r].job
                w == runs[r].workers[i]
            IN  /\ jobs'[j].downloadedTiles = jobs[j].downloadedTiles + 1
                /\ getTileNext(w.tile) = w.buffer]_vars

\* What the code does give a call with refetch = true: it never reads the
\* cache and never returns fromCache; it returns fromRemote when the fetch
\* gave bytes and caching is not disabled after the probe, otherwise none;
\* when it returns fromRemote after a write that succeeded, the store holds
\* the fetched bytes for the tile.
C4_Refetch ==
    [][\A r \in RunIds, i \in WorkerIds :
         (Acts(r, i) /\ jobs[runs[r].job].options.refetch
            /\ runs[r].workers[i].pc \in CallPcs) =>
            LET j == runs[r].job
                w == runs[r].workers[i]
            IN  /\ w.pc # "read"
                /\ jobs'[j].cachedTiles = jobs[j].cachedTiles
                /\ stats'.hits = stats.hits
                /\ (w.pc = "probe" /\ w.buffer # Null /\ ~CachingDisabled')
                   => ~Returns(r, i)
                /\ Returns(r, i) =>
                     IF w.pc = "put"
                     THEN /\ jobs'[j].downloadedTiles = jobs[j].downloadedTiles + 1
                          /\ TilesCached' = TilesCached + 1
                             => getTileNext(w.tile) = w.buffer
                     ELSE /\ jobs'[j].failedTiles = jobs[j].failedTiles + 1
                          /\ w.pc = "probe" => (w.buffer = Null \/ CachingDisabled')]_vars

\* A refetching seed has replaced the bytes a tile GET had cached.
C4_Overwritten ==
    \E r \in RunIds, g \in GetIds :
        /\ runs[r].phase = "finished"
        /\ jobs[runs[r].job].options.refetch
        /\ jobs[runs[r].job].downloadedTiles = 1
        /\ GetDone(g) /\ gets[g].ret.source = FetchedFromRemote
        /\ lastWriter[gets[g].tile] = <<"seed", r>>
        /\ mapRows[gets[g].tile] # gets[g].ret.buffer
        /\ ~CachingDisabled

Created(j) == j < nextJobId
StateOf(j) == IF Created(j) THEN jobs[j].state ELSE "absent"
SeedActive(j) == \E r \in RunIds : runs[r].phase = "seeding" /\ runs[r].job = j
Counters(job) == <<job.downloadedTiles, job.cachedTiles, job.failedTiles, job.totalTiles>>

\* C5: every job is created stopped, and a job that is running is
\* eventually stopped again.
C5_RunningEndsStopped ==
    /\ [][\A j \in JobIds : (~Created(j) /\ j < nextJobId') => jobs'[j].state = Stopped]_vars
    /\ \A j \in JobIds : [](StateOf(j) = Running => <>(StateOf(j) = Stopped))

\* C6: no step takes a job whose state is running out of the registry.
C6_RemoveOnlyStopped ==
    [][\A j \in JobIds :
         (j \in ActiveJobs /\ jobs[j].state = Running) => j \in ActiveJobs']_vars

\* C7: while cancelRequested stays set no worker of a running seed pulls a
\* tile; every call of the tile cache that returns meanwhile is counted;
\* and the seed ends with the job's state stopped, unless a later start
\* clears cancelRequested.
C7_StopDrains ==
    /\ [][\A r \in RunIds :
            (/\ runs[r].phase = "seeding"
             /\ jobs[runs[r].job].cancelRequested
             /\ jobs'[runs[r].job].cancelRequested) =>
               /\ runs'[r].phase = "seeding" =>
                     /\ runs'[r].pos = runs[r].pos
                     /\ runs'[r].tileCounter = runs[r].tileCounter
               /\ \A i \in WorkerIds : Returns(r, i) =>
                     Sum(jobs'[runs[r].job]) = Sum(jobs[runs[r].job]) + 1]_vars
    /\ \A j \in JobIds :
          []((Created(j) /\ SeedActive(j) /\ jobs[j].cancelRequested) =>
               <>(/\ Created(j)
                  /\ \/ ~jobs[j].cancelRequested
                     \/ ~SeedActive(j) /\ jobs[j].state = Stopped))

\* A seed stopped by cancelJob: results that were in flight at the stop have
\* been counted, tiles of the sequence are left unpulled, the job is stopped.
C7_Witness ==
    \E r \in RunIds :
        /\ runs[r].phase = "finished" /\ ~runs[r].exhausted
        /\ LET j == runs[r].job
           IN  /\ ~SeedActive(j)
               /\ jobs[j].cancelRequested /\ jobs[j].state = Stopped
               /\ stopSum[j] >= 0
               /\ Sum(jobs[j]) > stopSum[j]
               /\ Sum(jobs[j]) < Len(jobs[j].tiles)

\* C8: after cancelJob at downloaded + cached + failed = P the sum never
\* exceeds P + Concurrency.
C8_AtMostConcurrencyMore ==
    \A j \in JobIds :
        (Created(j) /\ jobs[j].cancelRequested /\ stopSum[j] >= 0)
        => Sum(jobs[j]) <= stopSum[j] + Concurrency

\* C9: while a cancelled or disk-full-stopped job stays stopped its counters
\* do not change.
C9_FrozenWhenStopped ==
    [][\A j \in JobIds :
         (/\ Created(j) /\ jobs[j].cancelRequested
          /\ jobs[j].state = Stopped /\ jobs'[j].state = Stopped)
         => Counters(jobs'[j]) = Counters(jobs[j])]_vars

\* In the step the workers of seedCache call r have all returned, the
\* sequence being exhausted.
Completes(r) ==
    /\ runs[r].phase = "seeding"
    /\ runs'[r].phase # "seeding"
    /\ runs'[r].exhausted

\* C10 as stated: at completion of a seed the sum is at least totalTiles.
C10_SumReachesTotal ==
    [][\A r \in RunIds : Completes(r) =>
          Sum(jobs'[runs[r].job]) >= jobs'[runs[r].job].totalTiles]_vars

\* C10 amended: at completion of a seed the sum is at most totalTiles.
C10_SumAtMostTotal ==
    [][\A r \in RunIds : Completes(r) =>
          Sum(jobs'[runs[r].job]) <= jobs'[runs[r].job].totalTiles]_vars

\* A completed seed of a job made from a feature, all tiles of the sequence
\* counted, the sum still below the estimate kept at creation.
C10_Witness ==
    \E r \in RunIds :
        /\ runs[r].phase = "finished" /\ runs[r].exhausted
        /\ limit.seedRuns = 1
        /\ LET job == jobs[runs[r].job]
           IN  /\ job.kind = "feature"
               /\ Sum(job) = Len(job.tiles)
               /\ Sum(job) < job.totalTiles

\* C11: a call of the tile cache that returns without bytes (the fetch gave
\* none, or caching is disabled) adds one to failedTiles, and the worker
\* goes on: unless the job is cancelled it pulls the next tile of the
\* sequence when there is one.
C11_FailureDoesNotAbort ==
    [][\A r \in RunIds, i \in WorkerIds :
         (Returns(r, i) /\ runs[r].workers[i].pc \in {"fetch", "probe"}) =>
            LET j == runs[r].job
            IN  /\ jobs'[j].failedTiles = jobs[j].failedTiles + 1
                /\ jobs'[j].downloadedTiles = jobs[j].downloadedTiles
                /\ (~jobs[j].cancelRequested /\ runs[r].pos <= Len(jobs[j].tiles)) =>
                      /\ runs'[r].phase = "seeding"
                      /\ runs'[r].pos = runs[r].pos + 1
                      /\ runs'[r].workers[i].tile = jobs[j].tiles[runs[r].pos]]_vars

\* A seed that went through its whole sequence although tiles failed.
C11_Witness ==
    \E r \in RunIds :
        /\ runs[r].phase = "finished" /\ runs[r].exhausted
        /\ limit.seedRuns = 1
        /\ LET job == jobs[runs[r].job]
           IN  /\ ~job.cancelRequested
               /\ job.failedTiles >= 1 /\ job.downloadedTiles >= 1
               /\ Len(job.tiles) = 3
               /\ Sum(job) = Len(job.tiles)

\* C12: a tile whose store read failed or whose store write failed (the
\* write did not add to TilesCached) is counted in failedTiles, not in
\* downloadedTiles or cachedTiles, when the worker's call returns.
C12_StoreFailureCounted ==
    [][\A r \in RunIds, i \in WorkerIds :
         (/\ Returns(r, i)
          /\ \/ runs[r].workers[i].readFailed
             \/ runs[r].workers[i].pc = "put" /\ TilesCached' = TilesCached) =>
            LET j == runs[r].job
            IN  /\ jobs'[j].failedTiles = jobs[j].failedTiles + 1
                /\ jobs'[j].downloadedTiles = jobs[j].downloadedTiles
                /\ jobs'[j].cachedTiles = jobs[j].cachedTiles]_vars

\* C13: the fetcher gives bytes exactly for a response with response.ok and
\* a body that is not empty; in every other case it gives null.
C13_BytesOnlyForNonEmptyBody ==
    \A g \in GetIds :
        gets[g].response # NoResponse =>
            (gets[g].buffer # Null <=>
                /\ gets[g].response.kind = "http"
                /\ gets[g].response.ok
                /\ gets[g].response.body # EmptyBuffer)

\* C14: no job made for a feature without geometry or with a geometry that
\* is not a polygon is in the registry.
C14_BadFeatureNotRegistered ==
    \A j \in JobIds :
        (Created(j) /\ jobs[j].geometry \in {"nonPolygon", "none"}) => j \notin ActiveJobs

DelIds == 1..MaxDeleteRuns

\* C15: when a deleteCache call has run to its end and no tile was written
\* since it began, the store has no tile for any tile of the job's region.
C15_DeletedTilesAbsent ==
    \A d \in DelIds :
        (/\ dels[d].phase = "finished" /\ dels[d].completed
         /\ dels[d].cachedAtStart = TilesCached) =>
            \A k \in 1..Len(jobs[dels[d].job].tiles) :
                getTile(St, jobs[dels[d].job].tiles[k]) = Null

\* A delete run that removed, in more than one chunk, the three tiles a
\* seed had stored.
C15_Witness ==
    \E d \in DelIds :
        /\ dels[d].phase = "finished" /\ dels[d].completed
        /\ dels[d].cachedAtStart = TilesCached
        /\ Len(jobs[dels[d].job].tiles) = 3
        /\ \A t \in Tiles : lastWriter[t] = <<"delete", d>>
        /\ images = {}

\* C16: the jobs ever created have the ids 1, 2, ... in the order of their
\* creation, each id once; a created job keeps its id, and nextJobId never
\* goes back, whatever is removed from the registry.
C16_IdsIncreaseNeverReused ==
    /\ [](\A j \in JobIds :
            jobs[j].exists <=> (j < nextJobId /\ jobs[j].id = j))
    /\ [][/\ nextJobId' >= nextJobId
          /\ nextJobId' # nextJobId =>
                /\ nextJobId' = nextJobId + 1
                /\ ~jobs[nextJobId].exists
                /\ jobs'[nextJobId].exists /\ jobs'[nextJobId].id = nextJobId
          /\ \A j \in JobIds :
                jobs[j].exists => (jobs'[j].exists /\ jobs'[j].id = jobs[j].id)]_vars

\* Two jobs were created, the first has been removed, the second has id 2.
C16_Witness ==
    /\ nextJobId = 3
    /\ ActiveJobs = {2}
    /\ jobs[1].id = 1 /\ jobs[2].id = 2

\* C17: CachingDisabled, once true, stays true.
C17_CachingDisabledForGood ==
    [][CachingDisabled => CachingDisabled']_vars

\* Caching was disabled during a tile GET; a GET made after that one had
\* returned fetched bytes too and found caching still disabled.
C17_Witness ==
    /\ CachingDisabled
    /\ \E g \in GetIds : \E h \in gets[g].after :
          /\ GetDone(g)
          /\ gets[h].buffer # Null /\ gets[h].ret.source = SourceNone
          /\ gets[g].buffer # Null /\ gets[g].ret.source = SourceNone

Stored == {t \in Tiles : getTile(St, t) # Null}

\* Two jobs over disjoint regions have each been seeded once, neither was
\* cancelled, nothing else wrote to the store of the provider.
TwoSeedsDone ==
    /\ nextJobId = 3
    /\ Range(jobs[1].tiles) \cap Range(jobs[2].tiles) = {}
    /\ \A r \in {1, 2} : runs[r].phase = "finished" /\ runs[r].exhausted
    /\ runs[1].job # runs[2].job
    /\ \A r \in RunIds \ {1, 2} : runs[r].phase = "free"
    /\ \A d \in DelIds : dels[d].phase = "free"
    /\ \A g \in GetIds : gets[g].pc = "new"
    /\ ~CachingDisabled /\ ~limit.storeErrors /\ Null \notin limit.remote

\* A worker of seed r waits for an I/O completion of its own.
Awaiting(r) ==
    \E i \in WorkerIds : runs[r].workers[i].pc \in CallPcs \cup {"disk"}

C19_SnapshotUnchanged ==
    statistics.taken =>
        \A k \in statistics.keys : ReadStatistics(k) = statistics.values[k]

\* The tiles of the zooms minZoom..maxZoom in the inclusive rectangle
\* between the corner tiles of the bbox.
RectangleOfZooms(bbox, minZoom, maxZoom) ==
    { tile \in [x : 0..GridSize, y : 0..GridSize, z : minZoom..maxZoom] :
        LET low == lonLatToTileXY(bbox[1], bbox[2], tile.z)
            high == lonLatToTileXY(bbox[3], bbox[4], tile.z)
        IN  /\ low[1] <= tile.x /\ tile.x <= high[1]
            /\ high[2] <= tile.y /\ tile.y <= low[2] }

\* C20: for a bbox that does not cross the antimeridian the enumeration
\* yields the tiles of the zooms minZoom..maxZoom in the rectangle between
\* the corner tiles, each once, and a second enumeration yields the same
\* sequence.
C20_ExactlyZoomRange ==
    (enumeration.called /\ enumeration.bbox[1] <= enumeration.bbox[3]) =>
        LET expected == RectangleOfZooms(enumeration.bbox, enumeration.minZoom,
                                         enumeration.maxZoom)
        IN  /\ Range(enumeration.first) = expected
            /\ Len(enumeration.first) = Cardinality(expected)
            /\ enumeration.second = enumeration.first

\* What the enumeration does yield: the rectangles of the zooms 0..maxZoom.
C20_FromZoomZero ==
    (enumeration.called /\ enumeration.bbox[1] <= enumeration.bbox[3]) =>
        LET yielded == RectangleOfZooms(enumeration.bbox, 0, enumeration.maxZoom)
        IN  /\ Range(enumeration.first) = yielded
            /\ Len(enumeration.first) = Cardinality(yielded)
            /\ enumeration.second = enumeration.first

\* C21: for a zoom z of 0..24 and a row y of 0..2^z - 1 the flipped row
\* 2^z - 1 - y is a row of zoom z and flipping it again gives y; a row
\* written to the store and read back, and a row of the store converted
\* and converted back, are unchanged.
C21_FlipIsInvolution ==
    flip.called =>
        LET last == Pow2(flip.z) - 1
            flipped == last - flip.y
        IN  /\ 0 <= flipped /\ flipped <= last
            /\ last - flipped = flip.y
            /\ flip.tms = flipped /\ flip.fromTms = flipped
            /\ flip.xyz = flip.y
            /\ flip.backToTms = flip.y

\* The last row of the deepest zoom has been written and read back.
C21_Witness ==
    /\ flip.called
    /\ flip.z = MaxStoreZoom
    /\ flip.y = Pow2(MaxStoreZoom) - 1
    /\ flip.tms = 0
    /\ flip.xyz = flip.y

\* C22: every POST to the job-control endpoint is answered: with 200 when
\* the job exists and the action is start, stop, delete or remove, with 404
\* when there is no job of that id or the action is none of the four.
C22_AlwaysAnswered ==
    reply.posted =>
        IF reply.known /\ reply.action \in ControlActions
        THEN reply.status = 200
        ELSE reply.status = 404

\* The seedCache calls made for job j so far.
RunsOf(j) == {r \in RunIds : runs[r].phase # "free" /\ runs[r].job = j}

\* C23: every tile a worker pulled went to the tile cache and raised one
\* counter, so when the workers of a run have all ended, downloaded +
\* cached + failed is the number of tiles the run pulled.
C23_EveryPulledTileCounted ==
    [][\A r \in RunIds :
          (runs[r].phase = "seeding" /\ runs'[r].phase # "seeding") =>
              Sum(jobs'[runs[r].job]) = runs[r].tileCounter]_vars

\* C24: a run never asks the tile cache for a tile twice, and a run of a
\* job that is not cancelled and for which seedCache was called only once
\* has, when its workers have ended, asked for every tile of the job's
\* sequence once and for no other tile.
C24_EachTileOnce ==
    /\ [](\A r \in RunIds : runs[r].phase = "seeding" =>
              \A t \in Tiles : runs[r].requested[t] <= 1)
    /\ [][\A r \in RunIds :
            (/\ runs[r].phase = "seeding" /\ runs'[r].phase # "seeding"
             /\ RunsOf(runs[r].job) = {r}
             /\ ~jobs'[runs[r].job].cancelRequested) =>
                \A t \in Tiles :
                    runs[r].requested[t] =
                        IF t \in Range(jobs[runs[r].job].tiles) THEN 1 ELSE 0]_vars

\* The only run of a job over three tiles has asked for each of them once;
\* its two workers hold the last two, nothing was cancelled.
C24_Witness ==
    \E r \in RunIds :
        /\ runs[r].phase = "seeding"
        /\ RunsOf(runs[r].job) = {r}
        /\ ~jobs[runs[r].job].cancelRequested
        /\ jobs[runs[r].job].tiles = <<1, 2, 3>>
        /\ \A t \in Tiles : runs[r].requested[t] = 1
        /\ Sum(jobs[runs[r].job]) = 1
        /\ {runs[r].workers[i].tile : i \in WorkerIds} = {2, 3}
        /\ \A i \in WorkerIds : runs[r].workers[i].pc \in CallPcs

\* The tile requests job j has in flight: the workers of its seedCache
\* calls that wait inside getTileFromCacheOrRemote.
RequestsInFlight(j) ==
    {<<r, i>> \in RunIds \X WorkerIds :
        /\ runs[r].phase = "seeding" /\ runs[r].job = j
        /\ runs[r].workers[i].pc \in CallPcs}

\* C25: a job never has more than Concurrency tile requests in flight.
C25_AtMostConcurrencyInFlight ==
    \A j \in JobIds : Cardinality(RequestsInFlight(j)) <= Concurrency

\* The tiles a seedCache call has pulled (none before it began).
Pulled(run) == IF run.phase = "seeding" THEN run.tileCounter ELSE 0

\* The free-space probes run r begins in a step.
ProbesBegun(r) ==
    {i \in WorkerIds :
        /\ runs'[r].workers[i].pc = "disk"
        /\ runs[r].phase = "seeding" => runs[r].workers[i].pc # "disk"}

\* A probe is begun for every DiskCheckEvery-th tile pulled, and for no other.
ProbeAtEveryNth(r) ==
    runs'[r].phase = "seeding" =>
        Cardinality(ProbesBegun(r)) =
            Cardinality({n \in (Pulled(runs[r]) + 1)..Pulled(runs'[r]) :
                            n % DiskCheckEvery = 0})

\* After a failed probe run r pulls no tile, and it ends with the job stopped.
DrainsWhenDiskFull(r) ==
    (runs[r].phase = "seeding" /\ runs[r].diskFull) =>
        IF runs'[r].phase = "seeding"
        THEN runs'[r].tileCounter = runs[r].tileCounter
        ELSE jobs'[runs[r].job].state = Stopped

\* C26: in a seed free space is probed at every DiskCheckEvery-th tile
\* pulled; a probe that finds too little sets cancelRequested, after it the
\* run pulls no further tile, and when its workers have ended the job is
\* stopped.
C26_DiskFullDrains ==
    /\ [][\A r \in RunIds : ProbeAtEveryNth(r)]_vars
    /\ [][\A r \in RunIds : runs'[r].phase = "seeding" /\ runs'[r].diskFull
              /\ ~(runs[r].phase = "seeding" /\ runs[r].diskFull)
              => jobs'[runs'[r].job].cancelRequested]_vars
    /\ [][\A r \in RunIds : DrainsWhenDiskFull(r)]_vars

\* The same holds of the jobs seedCache was called for only once.
C26_DrainsUnlessRestarted ==
    /\ [][\A r \in RunIds : ProbeAtEveryNth(r)]_vars
    /\ [][\A r \in RunIds : runs'[r].phase = "seeding" /\ runs'[r].diskFull
              /\ ~(runs[r].phase = "seeding" /\ runs[r].diskFull)
              => jobs'[runs'[r].job].cancelRequested]_vars
    /\ [][\A r \in RunIds :
             (runs[r].phase = "seeding" /\ RunsOf(runs[r].job) = {r})
             => DrainsWhenDiskFull(r)]_vars

\* Caching was disabled while seedCache call r was running.
DisabledDuring(r) ==
    /\ runs[r].phase = "seeding"
    /\ runs[r].cachingAtStart
    /\ CachingDisabled

\* C27: once CachingDisabled has been set while a seed was running, that
\* seed pulls no further tile, and when its workers have ended
\* cancelRequested is true and the job is stopped.
C27_CachingDisabledCancels ==
    [][\A r \in RunIds : DisabledDuring(r) =>
          IF runs'[r].phase = "seeding"
          THEN runs'[r].tileCounter = runs[r].tileCounter
          ELSE /\ jobs'[runs[r].job].cancelRequested
               /\ jobs'[runs[r].job].state = Stopped]_vars

\* C28: between the write that makes TilesCached a multiple of
\* DiskCheckEvery and the write that makes it the next multiple the tile
\* cache probes the free space at least once.
C28_SampledEveryNthWrite ==
    [][(/\ limit.samples
        /\ TilesCached' = TilesCached + 1
        /\ TilesCached' % DiskCheckEvery = 0
        /\ TilesCached' >= 2 * DiskCheckEvery) => sampled]_vars

\* lines 286-299: the progress info() reports, as numerator and denominator.
progress(job) ==
    IF job.totalTiles > 0 /\ job.type = TypeSeed
    THEN <<Sum(job), job.totalTiles>>
    ELSE IF job.totalTiles > 0 /\ job.type = TypeDelete
    THEN <<job.deletedTiles, job.totalTiles>>
    ELSE <<0, 1>>

\* The seed runs of job j that have not ended.
SeedingRuns(j) == {r \in RunIds : runs[r].phase = "seeding" /\ runs[r].job = j}

\* C29: whenever a job's type is seed, totalTiles is at least
\* downloadedTiles + cachedTiles + failedTiles, so the progress reported
\* is at most 1; and no step taken while a seed of the job runs lowers
\* totalTiles.
C29_TotalBoundsSum ==
    /\ [](\A j \in JobIds : (jobs[j].exists /\ jobs[j].type = TypeSeed) =>
              /\ Sum(jobs[j]) <= jobs[j].totalTiles
              /\ progress(jobs[j])[1] <= progress(jobs[j])[2])
    /\ [][\A j \in JobIds : SeedingRuns(j) # {} =>
              jobs'[j].totalTiles >= jobs[j].totalTiles]_vars

\* A seed still running on a job made from a bounding box: totalTiles was 0
\* at the start and has been raised twice, one tile of them failed.
C29_Witness ==
    \E j \in JobIds :
        /\ SeedingRuns(j) # {}
        /\ jobs[j].kind = "bbox"
        /\ jobs[j].failedTiles >= 1
        /\ jobs[j].totalTiles >= 2
        /\ Sum(jobs[j]) = jobs[j].totalTiles

\* The seed run r is in its export phase: Promise.all has resolved and the
\* loop of lines 235-244 has not ended.
Exporting(r) == runs[r].phase \in {"open", "xread", "xput"}

\* C30: while a seed with options.mbtiles copies tiles to the export store
\* under the status "Creating MBTiles", the job's state is running.
C30_RunningWhileExporting ==
    \A r \in RunIds :
        (/\ Exporting(r)
         /\ jobs[runs[r].job].options.mbtiles
         /\ jobs[runs[r].job].status = "Creating MBTiles")
        => jobs[runs[r].job].state = Running

\* What the code does instead: the step that takes a seed into its export
\* phase leaves the job stopped.
C30_StoppedOnEnteringExport ==
    [][\A r \in RunIds : (~Exporting(r) /\ Exporting(r)') =>
          /\ jobs'[runs'[r].job].state = Stopped
          /\ jobs'[runs'[r].job].status = "Creating MBTiles"]_vars

\* The delete run d ends in this step, having gone through both loops.
DeleteEnds(d) ==
    /\ dels[d].phase \in {"free", "deleting", "purging"}
    /\ dels'[d].phase = "finished"
    /\ dels'[d].completed

\* C31: at the end of a delete run deletedTiles is the number of map rows
\* the run has removed.
C31_DeletedCountsMapRows ==
    [][\A d \in 1..MaxDeleteRuns : DeleteEnds(d) =>
          jobs'[dels'[d].job].deletedTiles = dels'[d].removed]_vars

\* What the code keeps instead: while the status is "Deleting tiles" no
\* step adds to deletedTiles.
C31_NotCountedWhileDeleting ==
    [][\A d \in 1..MaxDeleteRuns :
          (dels[d].phase = "deleting" /\ dels'[d].phase = "deleting") =>
              jobs'[dels[d].job].deletedTiles = jobs[dels[d].job].deletedTiles]_vars

\* The delete run d is between its first and its last step.
Deleting(d) == dels[d].phase \in {"deleting", "purging"}

\* The statuses of a delete run, in order.
DeleteStatuses(options) ==
    <<"Deleting tiles", "Purging orphaned images">>
    \o (IF options.vacuum THEN <<"Vacuuming MBTiles database">> ELSE <<>>)
    \o <<"Completed">>

IsPrefix(s, t) == Len(s) <= Len(t) /\ SubSeq(t, 1, Len(s)) = s

\* C32: a delete run sets type delete and state running, sets its statuses
\* in the order of DeleteStatuses, begins the purge when all the map rows
\* it found are removed, and the job's state is running until the run ends
\* with status "Completed".
C32_DeleteInOrder ==
    \A d \in 1..MaxDeleteRuns :
        /\ Deleting(d) =>
              /\ jobs[dels[d].job].type = TypeDelete
              /\ jobs[dels[d].job].state = Running
              /\ IsPrefix(dels[d].statuses, DeleteStatuses(jobs[dels[d].job].options))
              /\ dels[d].phase = "purging" => dels[d].removed = dels[d].found
        /\ (dels[d].phase = "finished" /\ dels[d].completed) =>
              /\ dels[d].statuses = DeleteStatuses(jobs[dels[d].job].options)
              /\ dels[d].removed = dels[d].found

\* What the code keeps: the order of the statuses and the purge after the
\* last map row; and while a delete run is under way the job's state leaves
\* running only at the end of that run or of a seed of the same job.
C32_InOrderApartFromState ==
    /\ [](\A d \in 1..MaxDeleteRuns :
            /\ Deleting(d) =>
                  /\ IsPrefix(dels[d].statuses, DeleteStatuses(jobs[dels[d].job].options))
                  /\ dels[d].phase = "purging" => dels[d].removed = dels[d].found
            /\ (dels[d].phase = "finished" /\ dels[d].completed) =>
                  /\ dels[d].statuses = DeleteStatuses(jobs[dels[d].job].options)
                  /\ dels[d].removed = dels[d].found)
    /\ [][\A d \in 1..MaxDeleteRuns :
            (/\ Deleting(d)
             /\ jobs[dels[d].job].state = Running
             /\ jobs'[dels[d].job].state # Running) =>
                \/ DeleteEnds(d)
                \/ \E r \in RunIds : /\ runs[r].job = dels[d].job
                                    /\ runs[r].phase = "seeding"
                                    /\ runs'[r].phase # "seeding"]_vars

\* The step removes a chunk of map rows for the delete run d: the first
\* chunk when deleteCache is called, a later one when the timer has fired.
RemovesChunk(d) ==
    /\ dels'[d].phase = "deleting"
    /\ dels[d].phase = "free" \/ dels'[d].rows # dels[d].rows

\* The sequence deleteTilesInChunks has still to go through before the step.
RowsLeft(d) ==
    IF dels[d].phase = "free"
    THEN getMBTilesForPolygon(St, jobs[dels'[d].job].tiles)
    ELSE dels[d].rows

\* C33: a pass of deleteTilesInChunks removes the map rows of the tiles of
\* its chunk, the next ChunkSize tiles of the sequence it was given, and
\* leaves every other map row and all the images as they are.
C33_OnlyGivenMapRows ==
    [][\A d \in 1..MaxDeleteRuns : RemovesChunk(d) =>
          LET chunk == takeChunkOf(RowsLeft(d), ChunkSize)
          IN  /\ dels'[d].rows = dropChunkOf(RowsLeft(d), ChunkSize)
              /\ \A t \in Tiles :
                    mapRows'[t] = IF t \in Range(chunk) THEN Null ELSE mapRows[t]
              /\ images' = images]_vars

\* A delete run has removed the map row of its region while a tile outside
\* the region keeps its map row, and the images of both are still there.
C33_Witness ==
    \E d \in 1..MaxDeleteRuns, t \in Tiles :
        /\ dels[d].phase = "deleting"
        /\ dels[d].removed >= 1
        /\ t \notin Range(jobs[dels[d].job].tiles)
        /\ mapRows[t] # Null
        /\ Orphans(St) # {}

RECURSIVE SumOf(_)
SumOf(counts) == IF counts = <<>> THEN 0 ELSE Head(counts) + SumOf(Tail(counts))

\* total of purgeAllOrphanImages in the delete run d, 0 before its call.
TotalOf(d) == IF dels[d].phase = "free" THEN 0 ELSE dels[d].total

\* A pass of the purge loop of run d that has deleted images.
PurgesChunk(d) == dels'[d].phase # "free" /\ dels'[d].total > TotalOf(d)

\* The safety part of C34: no step deletes an image a map row references,
\* every map row has its image, a pass of the purge deletes at most
\* PurgeChunkSize images, and when the purge returns no orphan is left and
\* its total is the sum of the counts it reported.
PurgeIsClean ==
    /\ [](Referenced(St) \subseteq images)
    /\ [][/\ (images \ images') \subseteq Orphans(St)
          /\ \A d \in 1..MaxDeleteRuns :
                /\ PurgesChunk(d) =>
                      /\ Cardinality(images \ images') = dels'[d].total - TotalOf(d)
                      /\ dels'[d].total - TotalOf(d) <= PurgeChunkSize
                      /\ dels'[d].chunks =
                            Append(IF dels[d].phase = "free" THEN <<>> ELSE dels[d].chunks,
                                   dels'[d].total - TotalOf(d))
                /\ DeleteEnds(d) =>
                      /\ Orphans([mapRows |-> mapRows', images |-> images']) = {}
                      /\ dels'[d].total = SumOf(dels'[d].chunks)]_vars

\* C34: purgeAllOrphanImages deletes only images no map row references, at
\* most PurgeChunkSize in a pass; it ends, and then no orphan is left, every
\* map row has its image and the total is the sum of the reported counts.
C34_PurgeEndsClean ==
    /\ PurgeIsClean
    /\ \A d \in 1..MaxDeleteRuns :
          [](dels[d].phase = "purging" => <>(dels[d].phase = "finished" /\ dels[d].completed))

\* A purge that took more than one pass has returned: more orphans than
\* PurgeChunkSize were deleted and none is left.
C34_Witness ==
    \E d \in 1..MaxDeleteRuns :
        /\ dels[d].phase = "finished" /\ dels[d].completed
        /\ Len(dels[d].chunks) >= 2
        /\ dels[d].total > PurgeChunkSize
        /\ Orphans(St) = {}

\* The step registers job j and its initialiser has run to its end.
Initialised(j) ==
    /\ j = nextJobId
    /\ nextJobId' = j + 1
    /\ jobs'[j].kind \in Kinds

\* totalTiles as lines 129-132 set it for an estimate and a tile sequence.
RefinedTotal(estimate, tiles) ==
    IF estimate < RefineBelow THEN countTiles(tiles, CountUpperLimit) ELSE estimate

\* C35: a job created from a feature or from a bbox has as totalTiles the
\* estimate, or, for an estimate below RefineBelow, the number of tiles of
\* its sequence counted up to CountUpperLimit.
C35_TotalFromEstimateOrCount ==
    [][\A j \in JobIds : Initialised(j) =>
          \E estimate \in 0..MaxEstimate :
              jobs'[j].totalTiles = RefinedTotal(estimate, jobs'[j].tiles)]_vars

\* What the code keeps: the same for a job created from a feature, and a
\* job created from a bbox has totalTiles 0.
C35_FeatureTotalRefined ==
    [][\A j \in JobIds : Initialised(j) =>
          IF jobs'[j].kind = "feature"
          THEN \E estimate \in 0..MaxEstimate :
                  jobs'[j].totalTiles = RefinedTotal(estimate, jobs'[j].tiles)
          ELSE jobs'[j].totalTiles = 0]_vars

\* Tile: x and y are columns and rows of the grid of zoom z.
ValidTile(tile) ==
    /\ 0 <= tile.x /\ tile.x <= Pow2(tile.z) - 1
    /\ 0 <= tile.y /\ tile.y <= Pow2(tile.z) - 1

\* C36: every tile the bbox enumeration yields is a valid tile, for a bbox
\* that crosses the antimeridian too.
C36_YieldsValidTiles ==
    enumeration.called =>
        \A k \in 1..Len(enumeration.first) : ValidTile(enumeration.first[k])

\* What the enumeration keeps: the tiles of a bbox that does not cross the
\* antimeridian and lies west of it are valid.
C36_ValidWhenNotCrossing ==
    (enumeration.called /\ enumeration.bbox[1] <= enumeration.bbox[3]) =>
        \A k \in 1..Len(enumeration.first) : ValidTile(enumeration.first[k])

\* The awaits of getTileFromCacheOrRemote that come before the call has
\* added to hits, misses or failures: the store read, the remote fetch and
\* the free-space probe.  misses++ (line 352) comes before the await of the
\* write.
UncountedPcs == {"read", "fetch", "probe"}

\* The calls of getTileFromCacheOrRemote in flight that have not yet counted.
Uncounted ==
    Cardinality({g \in GetIds : gets[g].pc \in UncountedPcs})
    + Cardinality({<<r, i>> \in RunIds \X WorkerIds :
                      runs[r].phase = "seeding" /\ runs[r].workers[i].pc \in UncountedPcs})

C38_FailedProbeIsNoSpace ==
    /\ []((probe.n > 0 /\ probe.at = <<"cache">> /\ probe.outcome = "error")
            => CachingDisabled)
    /\ [][/\ CachingDisabled => CachingDisabled'
          /\ (probe'.n > probe.n /\ probe'.at[1] = "seed" /\ probe'.outcome = "error") =>
                LET j == runs[probe'.at[2]].job
                IN  /\ jobs'[j].cancelRequested
                    /\ jobs'[j].state = Stopped
                    /\ runs'[probe'.at[2]].phase = "seeding" =>
                          runs'[probe'.at[2]].tileCounter = runs[probe'.at[2]].tileCounter]_vars

\* After a probe of the tile cache that disabled caching, the probe at the
\* check of a seed has thrown: the job is cancelled.
C38_Witness ==
    /\ probe.n >= 2
    /\ probe.at[1] = "seed" /\ probe.outcome = "error"
    /\ CachingDisabled
    /\ jobs[runs[probe.at[2]].job].cancelRequested

\* The seedCache call r ends in this step.
SeedEnds(r) ==
    /\ runs[r].phase \notin {"free", "finished"}
    /\ runs'[r].phase = "finished"

\* C39: a seedCache call that ends with the job's status "Completed" has
\* gone through its whole tile sequence: a call cut short by cancelJob or by
\* the free-space check does not end with that status.
C39_CompletedOnlyWhenExhausted ==
    [][\A r \in RunIds :
          (SeedEnds(r) /\ jobs'[runs[r].job].status = "Completed") =>
              runs'[r].exhausted]_vars

\* What the code keeps: a seedCache call that ends when its workers end (no
\* export) ends with status "Completed", cut short or not.
C39_CompletedWhenWorkersEnd ==
    [][\A r \in RunIds :
          (SeedEnds(r) /\ runs[r].phase = "seeding") =>
              jobs'[runs[r].job].status = "Completed"]_vars

\* C40: after a stop issued during a delete run the run goes on: the job's
\* state is running until the run ends, and it ends having removed every
\* map row it found, purged every orphan and set all its statuses.
C40_StopDoesNotInterruptDelete ==
    [][\A d \in 1..MaxDeleteRuns :
          (Deleting(d) /\ dels[d].stopped) =>
              IF dels'[d].phase = "finished"
              THEN /\ dels'[d].completed
                   /\ dels'[d].removed = dels'[d].found
                   /\ Orphans([mapRows |-> mapRows', images |-> images']) = {}
                   /\ dels'[d].statuses = DeleteStatuses(jobs[dels[d].job].options)
                   /\ jobs[dels[d].job].state = Running
                   /\ jobs'[dels[d].job].state = Stopped
              ELSE jobs'[dels[d].job].state = Running]_vars

\* What the code keeps: the run goes on and ends as an unstopped one does;
\* the state is not part of it.
C40_DeleteGoesOnAfterStop ==
    [][\A d \in 1..MaxDeleteRuns :
          (Deleting(d) /\ dels[d].stopped) =>
              /\ dels'[d].phase # "free"
              /\ dels'[d].phase = "finished" =>
                   /\ dels'[d].completed
                   /\ dels'[d].removed = dels'[d].found
                   /\ Orphans([mapRows |-> mapRows', images |-> images']) = {}
                   /\ dels'[d].statuses = DeleteStatuses(jobs[dels[d].job].options)
                   /\ jobs'[dels[d].job].state = Stopped]_vars

====
